---- MODULE Spec2Model ----
(***************************************************************************)
(* Storage layer of the shift/activity diary (src/storage.py), embedded    *)
(* SQLite backend: schema migration (init_storage), the shift upsert and   *)
(* the activity CRUD handlers.                                             *)
(*                                                                         *)
(* Representation.  A table is a set of rows (records).  A TEXT value is a *)
(* sequence of one-character strings so that str.strip() can be computed;  *)
(* SQL NULL / Python None in a text column is the marker NULLT.  An        *)
(* ISO timestamp is a positive integer (seconds on the model's clock) and  *)
(* a NULL timestamp or a NULL id is NoTs / NoId.  An ISO date is a single  *)
(* character of DayChars (standing for the 10-character date), optionally  *)
(* followed by "T" for a full timestamp of that day.                       *)
(*                                                                         *)
(* The connection is opened with isolation_level=None (storage.py:66), so  *)
(* every SQL statement commits on its own: a handler is a sequence of      *)
(* separately committed statements.                                        *)
(***************************************************************************)
EXTENDS Integers, Sequences, FiniteSets, TLC

VARIABLES
  db,     \* the database file: tables, column shapes, indexes, sequences
  now,    \* the wall clock read by _now()
  hist,   \* history: what the last facade call was and how it ended
  pc,     \* per process: the statement of upsert_shift it is about to run
  loc     \* per process: the locals of its running upsert_shift call

vars == <<db, now, hist, pc, loc>>

----------------------------------------------------------------------------
(* Bounds of the model *)

MaxPreShifts == 2      \* rows of the shifts table found by init_storage
MaxPreActs == 2        \* rows of the activities table found by init_storage
MaxNow == 4            \* last clock value
MaxRuns == 2           \* init_storage calls in one behaviour
MaxShiftId == 3        \* AUTOINCREMENT ceiling for shifts in the CRUD models
MaxActId == 1          \* AUTOINCREMENT ceiling for activities in the CRUD models
MaxGen == 1         \* fresh hole ids drawn by add_activity and update_activity
MaxCalls == 2       \* facade calls of one session
MaxLockReports == 2 \* lock reports met by one init_storage call

----------------------------------------------------------------------------
(* Values *)

NULLT == <<"<NULL>">>
\* a key the caller's dict does not hold
ABSENT == <<"<ABSENT>">>
NoTs == 0
NoId == 0
SP == " "

Truthy(t) == t # NULLT /\ t # <<>>

RECURSIVE LStrip(_)
LStrip(s) == IF s # <<>> /\ Head(s) = SP THEN LStrip(Tail(s)) ELSE s

RECURSIVE RStrip(_)
RStrip(s) == IF s # <<>> /\ s[Len(s)] = SP THEN RStrip(SubSeq(s, 1, Len(s) - 1)) ELSE s

Strip(s) == RStrip(LStrip(s))

\* d.get(k): None for a missing key
Get(v) == IF v = ABSENT THEN NULLT ELSE v

\* d.get(k, ""): the default only for a missing key, not for a None value
GetOrEmpty(v) == IF v = ABSENT THEN <<>> ELSE v

\* str(v): None becomes the text "None"
PyStr(v) == IF v = NULLT THEN <<"N", "o", "n", "e">> ELSE v

\* _normalize_hole_id: None stays None; otherwise strip, and blank becomes None
normalize_hole_id(hole_id) ==
  IF hole_id = NULLT THEN NULLT
  ELSE IF Strip(hole_id) = <<>> THEN NULLT ELSE Strip(hole_id)

\* _generate_hole_id: uuid4, a fresh token on every call; n counts the calls
generate_hole_id(n) == [i \in 1..n |-> "#"]

\* clean() of the shift migrator
clean(val) == IF val = NULLT THEN <<>> ELSE Strip(val)

DayChars == {"1", "2", "9"}
Today == <<"9">>
UNKNOWN == <<"U", "N", "K">>
LOG == <<"L", "O", "G">>
OTH == <<"O", "T", "H">>
Other == <<"O">>
Activity == <<"A">>
DefaultHours == 12

IsIsoDate(s) == Len(s) = 1 /\ s[1] \in DayChars
IsIsoDateTime(s) == IsIsoDate(s) \/ (Len(s) = 2 /\ s[1] \in DayChars /\ s[2] = "T")

\* coerce_date of the shift migrator: full timestamp first, else the date
\* prefix, else today
coerce_date(val) ==
  LET s == clean(val) IN
  IF s = <<>> THEN Today
  ELSE IF IsIsoDateTime(s) THEN <<s[1]>>
  ELSE IF Len(s) >= 1 /\ IsIsoDate(SubSeq(s, 1, 1)) THEN SubSeq(s, 1, 1)
  ELSE Today

\* parse_ts of the shift migrator: None when the text is no ISO timestamp
parse_ts(val) == IF val # NoTs /\ val >= 1 THEN val ELSE NoTs

\* datetime.min, below every timestamp
TsMin == -1

RECURSIVE SortById(_)
SortById(S) ==
  IF S = {} THEN <<>>
  ELSE LET m == CHOOSE r \in S : \A q \in S : r.id <= q.id
       IN <<m>> \o SortById(S \ {m})

MaxOf(S) == IF S = {} THEN 0 ELSE CHOOSE m \in S : \A q \in S : q <= m

----------------------------------------------------------------------------
(* Hole registry *)

HoleIds(holes) == {h.hole_id : h \in holes}

\* the hole never registered
sqlite_upsert_hole_skipped(holes, hole_id, ts) == holes

\* INSERT OR REPLACE INTO holes: a registered hole gets a new row
sqlite_upsert_hole_replaced(holes, hole_id, ts) ==
  IF ~Truthy(hole_id) THEN holes
  ELSE {h \in holes : h.hole_id # hole_id}
         \cup {[hole_id |-> hole_id, created_at |-> ts, updated_at |-> ts]}

\* _sqlite_upsert_hole: INSERT ... ON CONFLICT(hole_id) DO UPDATE SET updated_at
sqlite_upsert_hole(holes, hole_id, ts) ==
  IF ~Truthy(hole_id) THEN holes
  ELSE IF hole_id \in HoleIds(holes)
       THEN {IF h.hole_id = hole_id THEN [h EXCEPT !.updated_at = ts] ELSE h : h \in holes}
       ELSE holes \cup {[hole_id |-> hole_id, created_at |-> ts, updated_at |-> ts]}

----------------------------------------------------------------------------
(* Reading a shift *)

\* (a, i) > (b, j) in ORDER BY ... DESC, id DESC
Later(a, i, b, j) == a > b \/ (a = b /\ i > j)

\* _sqlite_get_shift: newest row of the key, by username and, on a table that
\* still has the legacy column, by active_user
sqlite_get_shift(d, shift_date, username) ==
  LET byUser == {r \in d.shifts : username # NULLT /\ r.shift_date = shift_date
                                     /\ r.username = username}
      byActive == IF d.shiftCols = "legacy"
                  THEN {r \in d.shifts : username # NULLT /\ r.shift_date = shift_date
                                          /\ r.active_user = username}
                  ELSE {}
      pool == IF byUser # {} THEN byUser ELSE byActive
  IN IF pool = {} THEN {}
     ELSE {CHOOSE r \in pool :
             \A q \in pool : q = r \/ Later(r.updated_at, r.id, q.updated_at, q.id)}

----------------------------------------------------------------------------
(* Statements shared by the migrators, the deduplication pass and upsert *)

ShiftIds(d) == {r.id : r \in d.shifts}

\* the UPDATE left out: the activities of a duplicate stay on it
SqlRepointNone(acts, keep_id, sid) == acts

\* UPDATE activities SET shift_id=keep WHERE shift_id=sid
SqlRepoint(acts, keep_id, sid) ==
  {IF a.shift_id = sid THEN [a EXCEPT !.shift_id = keep_id] ELSE a : a \in acts}

\* DELETE FROM shifts WHERE id=sid, with foreign_keys=ON: the activities of
\* the row go with it (ON DELETE CASCADE, storage.py:624)
SqlDeleteShift(d, sid) ==
  [d EXCEPT !.shifts = {r \in @ : r.id # sid},
            !.acts = {a \in @ : a.shift_id # sid}]

SameKey(r, q) == r.shift_date = q.shift_date /\ r.username = q.username

----------------------------------------------------------------------------
(* Deduplication pass, storage.py:155-182 *)

\* COALESCE(updated_at, created_at, ''): '' sorts below every timestamp
Coalesce(r) ==
  IF r.updated_at # NoTs THEN r.updated_at
  ELSE IF r.created_at # NoTs THEN r.created_at ELSE NoTs

\* first row of ORDER BY COALESCE(...) DESC, id DESC
DedupeKeep(group) ==
  CHOOSE r \in group : \A q \in group : q = r \/ Later(Coalesce(r), r.id, Coalesce(q), q.id)

RECURSIVE DedupeLosers(_, _, _)
DedupeLosers(d, keep_id, losers) ==
  IF losers = {} THEN d
  ELSE LET sid == CHOOSE x \in losers : TRUE
           moved == [d EXCEPT !.acts = SqlRepoint(@, keep_id, sid)]
       IN DedupeLosers(SqlDeleteShift(moved, sid), keep_id, losers \ {sid})

RECURSIVE DedupeGroups(_, _)
DedupeGroups(d, dupes) ==
  IF dupes = {} THEN d
  ELSE LET k == CHOOSE x \in dupes : TRUE
           group == {r \in d.shifts : r.shift_date = k[1] /\ r.username = k[2]}
           keep == DedupeKeep(group)
       IN DedupeGroups(DedupeLosers(d, keep.id, {r.id : r \in group} \ {keep.id}), dupes \ {k})

sqlite_dedupe_shifts(d) ==
  LET dupes == {<<r.shift_date, r.username>> :
                  r \in {x \in d.shifts : \E q \in d.shifts : q # x /\ SameKey(q, x)}}
  IN DedupeGroups(d, dupes)

----------------------------------------------------------------------------
(* Shift table migrator, storage.py:300-555 *)

\* username: the column, else active_user; active_user also replaces a
\* username equal to the column default; else "UNKNOWN" (storage.py:409-416)
DerivedUsername(r, default_username) ==
  LET username == clean(r.username)
      active_user == clean(r.active_user)
      u1 == IF username = <<>> /\ active_user # <<>> THEN active_user ELSE username
      u2 == IF active_user # <<>> /\ Truthy(default_username) /\ u1 = default_username
            THEN active_user ELSE u1
  IN IF u2 = <<>> THEN UNKNOWN ELSE u2

coerce_hours(val) == IF val <= 0 THEN DefaultHours ELSE val

to_int_bool(val) == IF val = 0 THEN 0 ELSE 1

\* the canonical row derived from a legacy row (storage.py:409-471)
MigCanon(r, default_username, now_ts) ==
  LET created_at == IF r.created_at = NoTs THEN now_ts ELSE r.created_at
      updated_at == IF r.updated_at = NoTs THEN created_at ELSE r.updated_at
  IN [id |-> r.id,
      shift_date |-> coerce_date(r.shift_date),
      username |-> DerivedUsername(r, default_username),
      active_user |-> NULLT,
      client |-> IF clean(r.client) = <<>> THEN Other ELSE clean(r.client),
      mismatch |-> to_int_bool(r.mismatch),
      shift_hours |-> coerce_hours(r.shift_hours),
      created_at |-> created_at,
      updated_at |-> updated_at]

\* ts = parse_ts(updated_at) or parse_ts(created_at) or datetime.min,
\* taken on the derived values (storage.py:475)
MigSortTs(c) ==
  IF parse_ts(c.updated_at) # NoTs THEN parse_ts(c.updated_at)
  ELSE IF parse_ts(c.created_at) # NoTs THEN parse_ts(c.created_at) ELSE TsMin

\* keep_by_key: per derived key the row with the greatest (ts, id)
MigKeepers(canon) ==
  {c \in canon : \A q \in canon :
      SameKey(q, c) => (q = c \/ Later(MigSortTs(c), c.id, MigSortTs(q), q.id))}

\* rows the loop at storage.py:403 derives: a row without an id is skipped
MigRows(d) == {r \in d.shifts : r.id # NoId}

sqlite_migrate_shifts_to_new(d, now_ts) ==
  IF d.shiftCols = "canon" THEN d
  ELSE
    LET canon == {MigCanon(r, d.userDefault, now_ts) : r \in MigRows(d)}
        keepers == MigKeepers(canon)
        KeepId(old_id) ==
          LET c == CHOOSE x \in canon : x.id = old_id
          IN (CHOOSE k \in keepers : SameKey(k, c)).id
        acts2 == {IF a.shift_id \in {c.id : c \in canon}
                  THEN [a EXCEPT !.shift_id = KeepId(a.shift_id)] ELSE a : a \in d.acts}
    IN [d EXCEPT !.shifts = keepers,
                 !.shiftCols = "canon",
                 !.userDefault = NULLT,
                 !.uq = FALSE,
                 !.seqS = MaxOf({k.id : k \in keepers}),
                 !.acts = acts2]

----------------------------------------------------------------------------
(* Activity table migrator, storage.py:185-297 *)

\* the hole row stamped with the time of the pass
BackfillTsNow(r, now_ts) == now_ts

\* ts = r["updated_at"] or r["created_at"] or _now() (storage.py:221)
BackfillTs(r, now_ts) ==
  IF r.updated_at # NoTs THEN r.updated_at
  ELSE IF r.created_at # NoTs THEN r.created_at ELSE now_ts

\* the scan of an already canonical table (storage.py:203-224); st carries
\* the tables as the statements leave them and ok = FALSE once one raised
RECURSIVE BackfillScan(_, _, _)
BackfillScan(rows, st, now_ts) ==
  IF rows = <<>> \/ ~st.ok THEN st
  ELSE
    LET r == Head(rows)
        hole0 == normalize_hole_id(r.hole_id)
        fill == r.code = LOG /\ ~Truthy(hole0)
        hole_id_val == IF fill THEN generate_hole_id(st.gen + 1) ELSE hole0
        gen1 == IF fill THEN st.gen + 1 ELSE st.gen
        \* UPDATE activities SET hole_id=?, updated_at=? WHERE id=? runs before
        \* the hole is registered; foreign_keys is ON (storage.py:69, 555)
        fkOk == hole_id_val \in HoleIds(st.holes)
        ts == BackfillTs(r, now_ts)
        acts1 == IF fill
                 THEN {IF a.id = r.id
                       THEN [a EXCEPT !.hole_id = hole_id_val, !.updated_at = now_ts]
                       ELSE a : a \in st.acts}
                 ELSE st.acts
    IN IF fill /\ ~fkOk
       THEN [st EXCEPT !.gen = gen1, !.ok = FALSE]
       ELSE BackfillScan(Tail(rows),
                         [acts |-> acts1,
                          holes |-> sqlite_upsert_hole(st.holes, hole_id_val, ts),
                          gen |-> gen1, ok |-> TRUE],
                         now_ts)

\* the copy loop of the rebuild (storage.py:254-292); st.new is activities_new
RECURSIVE RebuildCopy(_, _, _, _)
RebuildCopy(rows, st, shiftIds, now_ts) ==
  IF rows = <<>> \/ ~st.ok THEN st
  ELSE
    LET r == Head(rows)
        start_val == IF r.start_ts # NoTs THEN r.start_ts ELSE now_ts
        end_val == IF r.end_ts # NoTs THEN r.end_ts ELSE start_val
        notes_val == IF Truthy(r.notes) THEN r.notes ELSE NULLT
        tool_val == IF Truthy(r.tool) THEN r.tool ELSE NULLT
        label_val == IF Truthy(r.label) THEN r.label ELSE Activity
        hole0 == normalize_hole_id(r.hole_id)
        code_val == IF Truthy(r.code) THEN r.code ELSE OTH
        fill == code_val = LOG /\ ~Truthy(hole0)
        hole_id_val == IF fill THEN generate_hole_id(st.gen + 1) ELSE hole0
        gen1 == IF fill THEN st.gen + 1 ELSE st.gen
        created_at == IF r.created_at # NoTs THEN r.created_at ELSE now_ts
        updated_at == IF r.updated_at # NoTs THEN r.updated_at ELSE created_at
        holes1 == sqlite_upsert_hole(st.holes, hole_id_val, updated_at)
        \* INSERT INTO activities_new: shift_id NOT NULL REFERENCES shifts(id)
        insOk == r.shift_id # NoId /\ r.shift_id \in shiftIds
        row == [id |-> st.seq + 1, shift_id |-> r.shift_id, start_ts |-> start_val,
                end_ts |-> end_val, code |-> code_val, label |-> label_val,
                notes |-> notes_val, tool |-> tool_val, hole_id |-> hole_id_val,
                created_at |-> created_at, updated_at |-> updated_at]
    IN IF ~insOk
       THEN [st EXCEPT !.holes = holes1, !.gen = gen1, !.ok = FALSE]
       ELSE RebuildCopy(Tail(rows),
                        [new |-> st.new \cup {row}, seq |-> st.seq + 1,
                         holes |-> holes1, gen |-> gen1, ok |-> TRUE],
                        shiftIds, now_ts)

\* the table rebuilt on every pass
ActsNeedMigrationAlways(d) == TRUE

\* needs_migration (storage.py:190-201): legacy columns, or no hole foreign key
ActsNeedMigration(d) == d.actCols # "canon"

\* result: the database and whether the migrator returned (ok) or raised
sqlite_migrate_activities_to_new(d, now_ts) ==
  IF ~ActsNeedMigration(d)
  THEN LET st == BackfillScan(SortById(d.acts),
                              [acts |-> d.acts, holes |-> d.holes, gen |-> d.gen, ok |-> TRUE],
                              now_ts)
       IN [db |-> [d EXCEPT !.acts = st.acts, !.holes = st.holes, !.gen = st.gen],
           ok |-> st.ok, rebuilt |-> FALSE]
  ELSE LET st == RebuildCopy(SortById(d.acts),
                             [new |-> {}, seq |-> 0, holes |-> d.holes, gen |-> d.gen, ok |-> TRUE],
                             ShiftIds(d), now_ts)
       IN IF st.ok
          THEN [db |-> [d EXCEPT !.acts = st.new, !.actCols = "canon", !.seqA = st.seq,
                                 !.holes = st.holes, !.gen = st.gen],
                ok |-> TRUE, rebuilt |-> TRUE]
          ELSE [db |-> [d EXCEPT !.holes = st.holes, !.gen = st.gen],
                ok |-> FALSE, rebuilt |-> FALSE]

----------------------------------------------------------------------------
(* init_storage on the embedded backend, storage.py:557-639 *)

HasDuplicateKey(shifts) == \E r, q \in shifts : r # q /\ SameKey(r, q)

\* CREATE UNIQUE INDEX IF NOT EXISTS uq_shifts_user_day: raises on duplicates
CreateUniqueIndex(d) ==
  IF d.uq THEN [db |-> d, ok |-> TRUE]
  ELSE IF HasDuplicateKey(d.shifts) THEN [db |-> d, ok |-> FALSE]
  ELSE [db |-> [d EXCEPT !.uq = TRUE], ok |-> TRUE]

\* shift migration, activity migration, deduplication, index creation
init_sqlite(d, now_ts) ==
  LET s == sqlite_migrate_shifts_to_new(d, now_ts)
      a == sqlite_migrate_activities_to_new(s, now_ts)
  IN IF ~a.ok THEN [db |-> a.db, ok |-> FALSE, rebuilt |-> a.rebuilt]
     ELSE LET i == CreateUniqueIndex(sqlite_dedupe_shifts(a.db))
          IN [db |-> i.db, ok |-> i.ok, rebuilt |-> a.rebuilt]

----------------------------------------------------------------------------
(* History kept for the properties *)

Procs == {"p1", "p2"}

\* a facade call and how it ended: err = "none" when it returned, else the
\* kind of exception; x its argument and out what it returned
Call(op, err, x, out) == [op |-> op, ok |-> err = "none", err |-> err, x |-> x, out |-> out]

NoCall == Call("none", "none", <<>>, <<>>)

Hist0(d) ==
  [pre |-> d,            \* the database when the latest init_storage call began
   call |-> NoCall,      \* the latest facade call and whether it returned (ok) or raised
   runs |-> 0,           \* init_storage calls so far
   okPrev |-> FALSE,     \* whether the call just before the latest was an init_storage that returned
   rebuilt |-> FALSE,    \* whether the latest init_storage rebuilt the activities table
   inited |-> FALSE,     \* whether an init_storage call has returned
   upserted |-> {},      \* keys for which an upsert_shift has returned
   lastWrite |-> <<>>,   \* per key, the payload of the last statement that wrote its row
   dupErr |-> FALSE,     \* whether an IntegrityError reached a caller of upsert_shift
   calls |-> 0]          \* facade calls of the session so far

Idle == [p \in Procs |-> "idle"]
NoLoc == [p \in Procs |-> [x |-> <<>>, existing |-> {}, ts |-> NoTs]]

----------------------------------------------------------------------------
(* Databases init_storage may find *)

\* the remote tables after their CREATE TABLE IF NOT EXISTS statements
\* (storage.py:646-689)
EmptySf == [shifts |-> {}, acts |-> {}, seqA |-> 0, holes |-> {}, vehicles |-> <<>>]

\* an empty file after the CREATE TABLE IF NOT EXISTS statements; session
\* tells whether a Snowflake session is active
EmptyDb ==
  [shifts |-> {}, shiftCols |-> "canon", userDefault |-> NULLT, uq |-> FALSE, seqS |-> 0,
   acts |-> {}, actCols |-> "canon", seqA |-> 0, holes |-> {}, gen |-> 0,
   vehicles |-> {}, session |-> FALSE, sf |-> EmptySf]

\* DEFAULT of the username column of the legacy shifts table
DefUser == <<"d">>

\* (created_at, updated_at) of a stored row
LegacyStamps == {<<NoTs, NoTs>>, <<1, 1>>, <<1, 2>>}
CanonStamps == {<<1, 1>>, <<1, 2>>}

\* (username, active_user, shift_date) as a legacy row may hold them
LegacyKeys ==
  {<<<<"a">>, NULLT, <<"1">>>>,
   <<<<SP, "a">>, NULLT, <<"1", "T">>>>,
   <<DefUser, <<"a">>, <<"1">>>>,
   <<NULLT, NULLT, <<"1">>>>,
   <<<<"a">>, NULLT, <<"z">>>>,
   <<NULLT, NULLT, NULLT>>}

CanonKeys == {<<<<"a">>, NULLT, <<"1">>>>, <<<<"b">>, NULLT, <<"1">>>>}

ShiftRow(id, k, st) ==
  [id |-> id, shift_date |-> k[3], username |-> k[1], active_user |-> k[2],
   client |-> <<"c">>, mismatch |-> 0, shift_hours |-> 8,
   created_at |-> st[1], updated_at |-> st[2]]

\* the rows a shifts table of the given shape may hold at position i; only a
\* legacy table (id not declared INTEGER PRIMARY KEY) can hold a NULL id
PreShiftRows(shape, i) ==
  IF shape = "canon"
  THEN {ShiftRow(i, k, st) : k \in CanonKeys, st \in CanonStamps}
  ELSE {ShiftRow(id, k, st) : id \in {i, NoId}, k \in LegacyKeys, st \in LegacyStamps}

PlainShiftRows(i) == {ShiftRow(i, <<<<"a">>, NULLT, <<"1">>>>, st) : st \in CanonStamps}

RECURSIVE ShiftTables(_, _)
ShiftTables(shape, n) ==
  IF n = 0 THEN {{}}
  ELSE {t \cup {r} : t \in ShiftTables(shape, n - 1), r \in PreShiftRows(shape, n)}

RECURSIVE PlainShiftTables(_)
PlainShiftTables(n) ==
  IF n = 0 THEN {{}}
  ELSE {t \cup {r} : t \in PlainShiftTables(n - 1), r \in PlainShiftRows(n)}

ActRow(id, sid, code, label, hole, st) ==
  [id |-> id, shift_id |-> sid, start_ts |-> st[1], end_ts |-> st[1], code |-> code,
   label |-> label, notes |-> NULLT, tool |-> NULLT,
   hole_id |-> hole, created_at |-> st[1], updated_at |-> st[2]]

\* the rows an activities table of the given shape may hold; the j-th
\* pre-existing activity has id j + 1 (id 1 was deleted long ago)
PreActRows(ashape, j, sids) ==
  IF ashape = "canon"
  THEN {ActRow(j + 1, sid, code, <<"x">>, hole, <<1, 1>>) :
          sid \in sids, code \in {LOG, OTH}, hole \in {NULLT, <<"h">>, <<"h", SP>>}}
  ELSE {ActRow(j + 1, sid, cl[1], cl[2], hole, st) :
          sid \in sids, cl \in {<<LOG, <<"x">>>>, <<OTH, <<"x">>>>, <<NULLT, NULLT>>},
          hole \in {NULLT, <<"h">>, <<SP>>},
          st \in {<<NoTs, NoTs>>, <<1, 1>>}}

PlainActRows(j, sids) == {ActRow(j + 1, sid, OTH, <<"x">>, NULLT, <<1, 1>>) : sid \in sids}

RECURSIVE ActTables(_, _, _)
ActTables(ashape, m, sids) ==
  IF m = 0 THEN {{}}
  ELSE {t \cup {r} : t \in ActTables(ashape, m - 1, sids), r \in PreActRows(ashape, m, sids)}

RECURSIVE PlainActTables(_, _)
PlainActTables(m, sids) ==
  IF m = 0 THEN {{}}
  ELSE {t \cup {r} : t \in PlainActTables(m - 1, sids), r \in PlainActRows(m, sids)}

\* the hole rows a canonical activities table (hole foreign key enforced)
\* implies: one per referenced hole_id
HolesFor(acts) ==
  {[hole_id |-> h, created_at |-> 1, updated_at |-> 1] :
     h \in {a.hole_id : a \in acts} \ {NULLT}}

PreDb(shape, shifts, ashape, acts) ==
  [shifts |-> shifts, shiftCols |-> shape,
   userDefault |-> IF shape = "legacy" THEN DefUser ELSE NULLT,
   uq |-> FALSE, seqS |-> MaxOf({r.id : r \in shifts}),
   acts |-> acts, actCols |-> ashape, seqA |-> MaxOf({a.id : a \in acts}),
   holes |-> IF ashape = "canon" THEN HolesFor(acts) ELSE {}, gen |-> 0,
   vehicles |-> {}, session |-> FALSE, sf |-> EmptySf]

RealIds(shifts) == {r.id : r \in shifts} \ {NoId}

\* first clock value after the timestamps of pre-existing rows
FirstNow == 3

\* A database written by earlier versions of the application, every activity
\* referring to a shift row: any shifts table with plain activities, or a
\* plain shifts table with any activities table.
InitMig ==
  /\ \/ \E shape \in {"canon", "legacy"}, ashape \in {"canon", "legacy"} :
        \E n \in 0..MaxPreShifts, m \in 0..MaxPreActs :
        \E S \in ShiftTables(shape, n) :
        \E A \in PlainActTables(m, RealIds(S)) :
           db = PreDb(shape, S, ashape, A)
     \/ \E ashape \in {"canon", "nofk", "legacy"} :
        \E n \in 1..MaxPreShifts, m \in 1..MaxPreActs :
        \E S \in PlainShiftTables(n) :
        \E A \in ActTables(ashape, m, RealIds(S)) :
           db = PreDb("canon", S, ashape, A)
  /\ now = FirstNow
  /\ hist = Hist0(db)
  /\ pc = Idle
  /\ loc = NoLoc

----------------------------------------------------------------------------
(* Facade calls as whole handlers *)

\* the clock advances between statements
Tick ==
  /\ now < MaxNow
  /\ now' = now + 1
  /\ UNCHANGED <<db, hist, pc, loc>>

\* init_storage(): _init_sqlite on the embedded backend
InitStorage ==
  /\ hist.runs < MaxRuns
  /\ LET r == init_sqlite(db, now)
     IN /\ db' = r.db
        /\ hist' = [hist EXCEPT !.pre = db,
                                !.call = Call("init", IF r.ok THEN "none" ELSE "integrity", <<>>, <<>>),
                                !.runs = @ + 1,
                                !.okPrev = (hist.call.op = "init" /\ hist.call.ok),
                                !.rebuilt = r.rebuilt,
                                !.inited = @ \/ r.ok]
  /\ UNCHANGED <<now, pc, loc>>

NextMig == InitStorage \/ Tick

SpecMig == InitMig /\ [][NextMig]_vars

----------------------------------------------------------------------------
(* upsert_shift on the embedded backend, storage.py:789-937 *)

\* required fields must be non-blank: str(d.get(k, "")).strip() (storage.py:790-793);
\* client stands for the required attribute columns
UpsertValid(x) ==
  /\ Strip(PyStr(GetOrEmpty(x.shift_date))) # <<>>
  /\ Strip(PyStr(GetOrEmpty(x.username))) # <<>>
  /\ Strip(PyStr(GetOrEmpty(x.client))) # <<>>

\* payload (storage.py:844-863): the mismatch flag becomes int(bool(.)), the
\* hours float(d.get("shift_hours", 12))
UpsertPayload(x, ts) ==
  [shift_date |-> Get(x.shift_date),
   username |-> Get(x.username),
   client |-> Get(x.client),
   mismatch |-> IF x.mismatch THEN 1 ELSE 0,
   shift_hours |-> IF x.shift_hours = <<>> THEN DefaultHours ELSE x.shift_hours[1],
   updated_at |-> ts]

\* the UPDATE with the client column left out of the SET list
SqlUpdateShiftByIdNoClient(d, id, payload) ==
  [d EXCEPT !.shifts =
     {IF r.id = id
      THEN [r EXCEPT !.mismatch = payload.mismatch, !.shift_hours = payload.shift_hours,
                     !.updated_at = payload.updated_at]
      ELSE r : r \in @}]

\* UPDATE shifts SET <payload> WHERE id=? (storage.py:895-896)
SqlUpdateShiftById(d, id, payload) ==
  [d EXCEPT !.shifts =
     {IF r.id = id
      THEN [r EXCEPT !.shift_date = payload.shift_date, !.username = payload.username,
                     !.client = payload.client, !.mismatch = payload.mismatch,
                     !.shift_hours = payload.shift_hours, !.updated_at = payload.updated_at]
      ELSE r : r \in @}]

\* UPDATE shifts SET <payload> WHERE shift_date=? AND username=? (storage.py:913-927)
SqlUpdateShiftByKey(d, payload) ==
  [d EXCEPT !.shifts =
     {IF SameKey(r, payload)
      THEN [r EXCEPT !.client = payload.client, !.mismatch = payload.mismatch,
                     !.shift_hours = payload.shift_hours, !.updated_at = payload.updated_at]
      ELSE r : r \in @}]

NewShiftRow(d, payload, ts) ==
  [id |-> d.seqS + 1, shift_date |-> payload.shift_date, username |-> payload.username,
   active_user |-> NULLT, client |-> payload.client, mismatch |-> payload.mismatch,
   shift_hours |-> payload.shift_hours, created_at |-> ts, updated_at |-> payload.updated_at]

\* the unique index never created: nothing conflicts
ConflictingNone(d, payload) == {}

\* rows the unique index uq_shifts_user_day sets against the payload
Conflicting(d, payload) == IF d.uq THEN {r \in d.shifts : SameKey(r, payload)} ELSE {}

\* the NOT NULL columns of the payload (storage.py:585-609)
NotNullOk(payload) ==
  payload.shift_date # NULLT /\ payload.username # NULLT /\ payload.client # NULLT

\* INSERT INTO shifts(...) (storage.py:903): IntegrityError on a key the
\* unique index already holds, or on NULL in a NOT NULL column
SqlInsertShift(d, payload, ts) ==
  IF Conflicting(d, payload) # {} \/ ~NotNullOk(payload)
  THEN [db |-> d, ok |-> FALSE]
  ELSE [db |-> [d EXCEPT !.shifts = @ \cup {NewShiftRow(d, payload, ts)}, !.seqS = @ + 1],
        ok |-> TRUE]

RECURSIVE DeleteShifts(_, _)
DeleteShifts(d, ids) ==
  IF ids = {} THEN d
  ELSE LET sid == CHOOSE x \in ids : TRUE
       IN DeleteShifts(SqlDeleteShift(d, sid), ids \ {sid})

\* INSERT OR REPLACE INTO shifts(...) (storage.py:910): the rows in conflict
\* are deleted, with their activities (ON DELETE CASCADE), and the payload is
\* inserted as a new row with a new AUTOINCREMENT id; NULL in a NOT NULL
\* column without default aborts the statement (IntegrityError)
SqlInsertOrReplaceShift(d, payload, ts) ==
  LET cleared == DeleteShifts(d, {r.id : r \in Conflicting(d, payload)})
  IN IF ~NotNullOk(payload) THEN [db |-> d, ok |-> FALSE]
     ELSE [db |-> [cleared EXCEPT !.shifts = @ \cup {NewShiftRow(d, payload, ts)},
                                  !.seqS = @ + 1],
           ok |-> TRUE]

\* the write of upsert_shift once `existing` was read (storage.py:879-927):
\* update by id, else insert and, on IntegrityError, dedupe, INSERT OR REPLACE
\* and finally update in place
\* whether the write changed a row
WriteApplied(d, existing) ==
  existing = {} \/ (CHOOSE e \in existing : TRUE).id \in ShiftIds(d)

\* the UPDATE by id raises IntegrityError: it reaches a row and sets a NOT
\* NULL column to NULL
UpdateByIdFails(d, existing, payload) ==
  existing # {} /\ WriteApplied(d, existing) /\ ~NotNullOk(payload)

\* the final UPDATE by key raises IntegrityError for the same reason
UpdateByKeyFails(d, payload) ==
  ~NotNullOk(payload) /\ \E r \in d.shifts : payload.username # NULLT /\ SameKey(r, payload)

\* result: the database, and err = "integrity" when an IntegrityError leaves
\* the function
UpsertWrite(d, existing, payload, ts) ==
  IF existing # {}
  THEN IF UpdateByIdFails(d, existing, payload)
       THEN [db |-> d, err |-> "integrity"]
       ELSE [db |-> SqlUpdateShiftById(d, (CHOOSE e \in existing : TRUE).id, payload),
             err |-> "none"]
  ELSE LET i == SqlInsertShift(d, payload, ts)
       IN IF i.ok THEN [db |-> i.db, err |-> "none"]
          ELSE LET dd == sqlite_dedupe_shifts(d)
                   r == SqlInsertOrReplaceShift(dd, payload, ts)
               IN IF r.ok THEN [db |-> r.db, err |-> "none"]
                  ELSE IF UpdateByKeyFails(dd, payload)
                  THEN [db |-> dd, err |-> "integrity"]
                  ELSE [db |-> SqlUpdateShiftByKey(dd, payload), err |-> "none"]

\* what upsert_shift returns (storage.py:930-937): the row read back, else
\* the payload with no id
UpsertReturn(d, payload, ts) ==
  LET out == sqlite_get_shift(d, payload.shift_date, payload.username)
  IN IF out # {} THEN CHOOSE r \in out : TRUE
     ELSE [id |-> NoId, shift_date |-> payload.shift_date, username |-> payload.username,
           active_user |-> NULLT, client |-> payload.client, mismatch |-> payload.mismatch,
           shift_hours |-> payload.shift_hours, created_at |-> ts,
           updated_at |-> payload.updated_at]

KeyOf(x) == <<x.shift_date, x.username>>

SetLast(f, k, v) == [q \in (DOMAIN f) \cup {k} |-> IF q = k THEN v ELSE f[q]]

\* upsert_shift(x) as one call
\* upsert_shift on the embedded backend (storage.py:789-795, 838-937);
\* result: the database, how the call ended, and what it returned
upsert_shift(d, x, ts) ==
  IF ~UpsertValid(x)
  THEN \* raise ValueError("Missing required field")
       [db |-> d, err |-> "validation", out |-> <<>>]
  ELSE IF Get(x.shift_date) = NULLT
  THEN \* None.isoformat(): AttributeError (storage.py:795)
       [db |-> d, err |-> "attribute", out |-> <<>>]
  ELSE LET payload == UpsertPayload(x, ts)
           existing == sqlite_get_shift(d, payload.shift_date, payload.username)
           w == UpsertWrite(d, existing, payload, ts)
       IN [db |-> w.db, err |-> w.err,
           out |-> IF w.err = "none" THEN UpsertReturn(w.db, payload, ts) ELSE <<>>]

\* the call reaches the INSERT of a new row
UpsertInserts(d, x) ==
  /\ UpsertValid(x)
  /\ sqlite_get_shift(d, Get(x.shift_date), Get(x.username)) = {}

UpsertShift(x) ==
  /\ hist.inited
  /\ UpsertInserts(db, x) => db.seqS < MaxShiftId
  /\ LET r == upsert_shift(db, x, now)
     IN /\ db' = r.db
        /\ hist' = [hist EXCEPT !.call = Call("upsert", r.err, x, r.out),
                                !.okPrev = FALSE,
                                !.upserted = IF r.err = "none" THEN @ \cup {KeyOf(x)} ELSE @]
  /\ UNCHANGED <<now, pc, loc>>

----------------------------------------------------------------------------
(* add_activity and update_activity on the embedded backend *)

Blank(t) == t = NULLT \/ Strip(t) = <<>>

\* a time given as a text of spaces only
TsSpace == -2

\* Python's "x or y" on times: None and "" are falsy
Or(x, y) == IF x # NoTs THEN x ELSE y

\* start_val and end_val (storage.py:1012-1013, 1126-1127)
StartVal(a) == Or(a.start_ts, a.start_time)
EndVal(a) == Or(Or(a.end_ts, a.end_time), StartVal(a))

BlankTs(v) == v = NoTs \/ v = TsSpace

\* the four required fields (storage.py:1020-1022, 1134-1136)
ActivityValid(a) ==
  /\ ~BlankTs(StartVal(a))
  /\ ~BlankTs(EndVal(a))
  /\ ~Blank(a.code)
  /\ ~Blank(a.label)

\* the supplied hole_id and never a fresh one
ActivityHoleGiven(a, gen) == normalize_hole_id(a.hole_id)

\* hole_id of the stored activity: the supplied one, trimmed, else a fresh
\* one for a LOG activity (storage.py:1016-1018, 1130-1132)
ActivityHole(a, gen) ==
  LET h == normalize_hole_id(a.hole_id)
  IN IF a.code = LOG /\ ~Truthy(h) THEN generate_hole_id(gen + 1) ELSE h

\* whether the call draws a fresh hole id
Generates(a) == a.code = LOG /\ ~Truthy(normalize_hole_id(a.hole_id))

\* the embedded branch of add_activity (storage.py:1040-1100); result: the
\* database and how the call ended
add_activity_sqlite(d, shift_date, username, a, ts) ==
  LET sh == sqlite_get_shift(d, shift_date, username)
      hole_id_val == ActivityHole(a, d.gen)
      row == [id |-> d.seqA + 1, shift_id |-> (CHOOSE e \in sh : TRUE).id,
              start_ts |-> StartVal(a), end_ts |-> EndVal(a),
              code |-> a.code, label |-> a.label, notes |-> a.notes, tool |-> a.tool,
              hole_id |-> hole_id_val, created_at |-> ts, updated_at |-> ts]
  IN IF sh = {}
     THEN \* raise ValueError("Shift does not exist yet.")
          [db |-> d, err |-> "validation"]
     ELSE [db |-> [d EXCEPT !.holes = sqlite_upsert_hole(@, hole_id_val, ts),
                            !.gen = IF Generates(a) THEN @ + 1 ELSE @,
                            !.acts = @ \cup {row},
                            !.seqA = @ + 1],
           err |-> "none"]

\* the UPDATE with WHERE id=? alone
update_activity_sqlite_by_id(d, shift_date, username, activity_id, a, ts) ==
  LET sh == sqlite_get_shift(d, shift_date, username)
      hole_id_val == ActivityHole(a, d.gen)
  IN IF sh = {}
     THEN [db |-> d, err |-> "validation"]
     ELSE [db |-> [d EXCEPT !.holes = sqlite_upsert_hole(@, hole_id_val, ts),
                            !.gen = IF Generates(a) THEN @ + 1 ELSE @,
                            !.acts = {IF r.id = activity_id
                                      THEN [r EXCEPT !.start_ts = StartVal(a),
                                                     !.end_ts = EndVal(a),
                                                     !.code = a.code, !.label = a.label,
                                                     !.notes = a.notes, !.tool = a.tool,
                                                     !.hole_id = hole_id_val,
                                                     !.updated_at = ts]
                                      ELSE r : r \in @}],
           err |-> "none"]

\* the embedded branch of update_activity (storage.py:1155-1188), canonical
\* activities table
update_activity_sqlite(d, shift_date, username, activity_id, a, ts) ==
  LET sh == sqlite_get_shift(d, shift_date, username)
      hole_id_val == ActivityHole(a, d.gen)
      sid == (CHOOSE e \in sh : TRUE).id
  IN IF sh = {}
     THEN \* raise ValueError("Shift does not exist yet.")
          [db |-> d, err |-> "validation"]
     ELSE [db |-> [d EXCEPT !.holes = sqlite_upsert_hole(@, hole_id_val, ts),
                            !.gen = IF Generates(a) THEN @ + 1 ELSE @,
                            !.acts = {IF r.id = activity_id /\ r.shift_id = sid
                                      THEN [r EXCEPT !.start_ts = StartVal(a),
                                                     !.end_ts = EndVal(a),
                                                     !.code = a.code, !.label = a.label,
                                                     !.notes = a.notes, !.tool = a.tool,
                                                     !.hole_id = hole_id_val,
                                                     !.updated_at = ts]
                                      ELSE r : r \in @}],
           err |-> "none"]

----------------------------------------------------------------------------
(* The remote backend (Snowflake session active) *)

backend(d) == IF d.session THEN "snowflake" ELSE "sqlite"

\* MERGE INTO PUMA_HOLES (storage.py:39-52)
sf_ensure_hole(holes, hole_id, ts) ==
  IF ~Truthy(hole_id) THEN holes
  ELSE IF hole_id \in HoleIds(holes)
       THEN {IF h.hole_id = hole_id THEN [h EXCEPT !.updated_at = ts] ELSE h : h \in holes}
       ELSE holes \cup {[hole_id |-> hole_id, created_at |-> ts, updated_at |-> ts]}

\* rows of PUMA_SHIFTS for a pair; USERNAME = NULL matches nothing
SfShiftsOf(sf, shift_date, username) ==
  {r \in sf.shifts : username # NULLT /\ r.shift_date = shift_date /\ r.username = username}

\* the remote branch of upsert_shift (storage.py:797-836): MERGE on the
\* pair, then get_shift and the assert on its result
upsert_shift_sf(d, x, ts) ==
  LET payload == UpsertPayload(x, ts)
      matched == SfShiftsOf(d.sf, payload.shift_date, payload.username)
      row == [shift_date |-> payload.shift_date, username |-> payload.username,
              client |-> payload.client, mismatch |-> payload.mismatch,
              shift_hours |-> payload.shift_hours, created_at |-> ts, updated_at |-> ts]
      merged == IF matched # {}
                THEN {IF r \in matched
                      THEN [r EXCEPT !.client = payload.client, !.mismatch = payload.mismatch,
                                     !.shift_hours = payload.shift_hours, !.updated_at = ts]
                      ELSE r : r \in d.sf.shifts}
                ELSE d.sf.shifts \cup {row}
      d2 == [d EXCEPT !.sf.shifts = merged]
      out == SfShiftsOf(d2.sf, payload.shift_date, payload.username)
  IN IF out = {} THEN [db |-> d2, err |-> "assertion", out |-> <<>>]
     ELSE [db |-> d2, err |-> "none",
           out |-> CHOOSE r \in out : \A q \in out : q.updated_at <= r.updated_at]

\* upsert_shift (storage.py:789-937)
upsert_shift_any(d, x, ts) ==
  IF UpsertValid(x) /\ Get(x.shift_date) # NULLT /\ d.session
  THEN upsert_shift_sf(d, x, ts)
  ELSE upsert_shift(d, x, ts)

\* the remote branch of add_activity (storage.py:1026-1038)
add_activity_sf(d, shift_date, username, a, ts) ==
  LET hole_id_val == ActivityHole(a, d.gen)
      row == [id |-> d.sf.seqA + 1, shift_date |-> shift_date, username |-> username,
              start_ts |-> StartVal(a), end_ts |-> EndVal(a),
              code |-> a.code, label |-> a.label, notes |-> a.notes, tool |-> a.tool,
              hole_id |-> hole_id_val, created_at |-> ts, updated_at |-> ts]
  IN [db |-> [d EXCEPT !.sf.holes = sf_ensure_hole(@, hole_id_val, ts),
                       !.gen = IF Generates(a) THEN @ + 1 ELSE @,
                       !.sf.acts = @ \cup {row},
                       !.sf.seqA = @ + 1],
      err |-> "none"]

\* add_activity without the check of the required fields
add_activity_unchecked(d, shift_date, username, a, ts) ==
  IF d.session THEN add_activity_sf(d, shift_date, username, a, ts)
  ELSE add_activity_sqlite(d, shift_date, username, a, ts)

\* add_activity (storage.py:1010-1100)
add_activity(d, shift_date, username, a, ts) ==
  IF ~ActivityValid(a) THEN [db |-> d, err |-> "validation"]
  ELSE IF d.session THEN add_activity_sf(d, shift_date, username, a, ts)
  ELSE add_activity_sqlite(d, shift_date, username, a, ts)

\* the remote branch of update_activity (storage.py:1140-1153)
update_activity_sf(d, shift_date, username, activity_id, a, ts) ==
  LET hole_id_val == ActivityHole(a, d.gen)
  IN [db |-> [d EXCEPT !.sf.holes = sf_ensure_hole(@, hole_id_val, ts),
                       !.gen = IF Generates(a) THEN @ + 1 ELSE @,
                       !.sf.acts = {IF r.id = activity_id /\ r.shift_date = shift_date
                                       /\ r.username = username
                                    THEN [r EXCEPT !.start_ts = StartVal(a),
                                                   !.end_ts = EndVal(a),
                                                   !.code = a.code, !.label = a.label,
                                                   !.notes = a.notes, !.tool = a.tool,
                                                   !.hole_id = hole_id_val,
                                                   !.updated_at = ts]
                                    ELSE r : r \in @}],
      err |-> "none"]

\* an UPDATE whose SET list leaves out the tool
update_activity_no_tool(d, shift_date, username, activity_id, a, ts) ==
  IF ~ActivityValid(a) THEN [db |-> d, err |-> "validation"]
  ELSE IF d.session
  THEN update_activity_sf(d, shift_date, username, activity_id, [a EXCEPT !.tool = NULLT], ts)
  ELSE update_activity_sqlite(d, shift_date, username, activity_id,
                              [a EXCEPT !.tool = NULLT], ts)

\* update_activity (storage.py:1125-1188)
update_activity(d, shift_date, username, activity_id, a, ts) ==
  IF ~ActivityValid(a) THEN [db |-> d, err |-> "validation"]
  ELSE IF d.session THEN update_activity_sf(d, shift_date, username, activity_id, a, ts)
  ELSE update_activity_sqlite(d, shift_date, username, activity_id, a, ts)

\* a delete_activity that trusts the id alone
delete_activity_by_id(d, shift_date, username, activity_id) ==
  [d EXCEPT !.acts = {r \in @ : r.id # activity_id},
            !.sf.acts = {r \in @ : r.id # activity_id}]

\* delete_activity (storage.py:1103-1122); it raises nothing
delete_activity(d, shift_date, username, activity_id) ==
  IF d.session
  THEN [d EXCEPT !.sf.acts = {r \in @ : ~(r.id = activity_id /\ r.shift_date = shift_date
                                          /\ r.username = username)}]
  ELSE LET sh == sqlite_get_shift(d, shift_date, username)
       IN IF sh = {} THEN d
          ELSE [d EXCEPT !.acts = {r \in @ : ~(r.id = activity_id
                                               /\ r.shift_id = (CHOOSE e \in sh : TRUE).id)}]

\* ORDER BY start_ts ASC, id ASC
RECURSIVE OrderByStart(_)
OrderByStart(S) ==
  IF S = {} THEN <<>>
  ELSE LET m == CHOOSE r \in S : \A q \in S :
                  r.start_ts < q.start_ts \/ (r.start_ts = q.start_ts /\ r.id <= q.id)
       IN <<m>> \o OrderByStart(S \ {m})

\* the dict built from a canonical row (storage.py:972-986): falsy label,
\* notes and tool are replaced by the legacy columns, which the table lacks
ListRow(r) ==
  [r EXCEPT !.label = IF Truthy(@) THEN @ ELSE NULLT,
            !.notes = IF Truthy(@) THEN @ ELSE NULLT,
            !.tool = IF Truthy(@) THEN @ ELSE NULLT]

\* list_activities (storage.py:940-1007), canonical activities table
list_activities(d, shift_date, username) ==
  IF d.session
  THEN OrderByStart({r \in d.sf.acts : r.shift_date = shift_date /\ r.username = username})
  ELSE LET sh == sqlite_get_shift(d, shift_date, username)
       IN IF sh = {} THEN <<>>
          ELSE LET rows == OrderByStart({r \in d.acts :
                                           r.shift_id = (CHOOSE e \in sh : TRUE).id})
               IN [i \in 1..Len(rows) |-> ListRow(rows[i])]

\* the vehicles of a list, as the embedded branch binds them
RECURSIVE SqlUpsertVehicles(_, _)
SqlUpsertVehicles(table, V) ==
  IF V = <<>> THEN table
  ELSE LET v == [barcode |-> Get(Head(V).barcode), name |-> Get(Head(V).name)]
       IN SqlUpsertVehicles({r \in table : r.barcode # v.barcode \/ v.barcode = NULLT}
                              \cup {v},
                            Tail(V))

\* upsert_reference_data (storage.py:698-747): the remote branch deletes and
\* appends, the embedded branch upserts by barcode; PUMA_VEHICLES has no key
\* and is kept as the sequence of its rows
upsert_reference_data(d, V) ==
  IF V = <<>> THEN d
  ELSE IF d.session
  THEN [d EXCEPT !.sf.vehicles =
          [i \in 1..Len(V) |-> [barcode |-> PyStr(GetOrEmpty(V[i].barcode)),
                                name |-> PyStr(GetOrEmpty(V[i].name))]]]
  ELSE [d EXCEPT !.vehicles = SqlUpsertVehicles(@, V)]

----------------------------------------------------------------------------
(* add_activity and update_activity as calls of one process *)

AddActivity(shift_date, username, a) ==
  /\ hist.inited
  /\ db.seqA < MaxActId
  /\ Generates(a) => db.gen < MaxGen
  /\ LET r == add_activity(db, shift_date, username, a, now)
     IN /\ db' = r.db
        /\ hist' = [hist EXCEPT !.call = Call("add", r.err, <<>>, <<>>),
                                !.okPrev = FALSE]
  /\ UNCHANGED <<now, pc, loc>>

UpdateActivity(shift_date, username, activity_id, a) ==
  /\ hist.inited
  /\ Generates(a) => db.gen < MaxGen
  /\ LET r == update_activity(db, shift_date, username, activity_id, a, now)
     IN /\ db' = r.db
        /\ hist' = [hist EXCEPT !.call = Call("update", r.err, <<>>, <<>>),
                                !.okPrev = FALSE]
  /\ UNCHANGED <<now, pc, loc>>

----------------------------------------------------------------------------
(* Inputs of the facade calls *)

ShiftInputs ==
  {[shift_date |-> <<"1">>, username |-> <<"a">>, client |-> <<"c">>,
    mismatch |-> FALSE, shift_hours |-> <<8>>],
   [shift_date |-> <<"1">>, username |-> <<"a">>, client |-> <<"e">>,
    mismatch |-> TRUE, shift_hours |-> <<>>],
   [shift_date |-> <<"1">>, username |-> <<"b">>, client |-> <<SP, "c">>,
    mismatch |-> FALSE, shift_hours |-> <<>>],
   [shift_date |-> <<"1">>, username |-> <<SP>>, client |-> <<"c">>,
    mismatch |-> FALSE, shift_hours |-> <<8>>]}

\* an activity as the timeline form submits it
FormActivity(code, label, hole_id) ==
  [start_ts |-> 1, start_time |-> NoTs, end_ts |-> NoTs, end_time |-> NoTs,
   code |-> code, label |-> label, notes |-> NULLT, tool |-> NULLT, hole_id |-> hole_id]

ActivityInputs ==
  {FormActivity(LOG, <<"x">>, NULLT),
   FormActivity(LOG, <<"x">>, <<"h", SP>>),
   FormActivity(OTH, <<"y">>, NULLT),
   FormActivity(OTH, <<SP>>, NULLT)}

----------------------------------------------------------------------------
(* The calls of one process, one after the other, on a new database file *)

Init ==
  /\ db = EmptyDb
  /\ now = FirstNow
  /\ hist = Hist0(db)
  /\ pc = Idle
  /\ loc = NoLoc

Next ==
  \/ InitStorage
  \/ Tick
  \/ \E x \in ShiftInputs : UpsertShift(x)
  \/ \E a \in ActivityInputs : AddActivity(<<"1">>, <<"a">>, a)
  \/ \E id \in 1..MaxActId, a \in ActivityInputs : UpdateActivity(<<"1">>, <<"a">>, id, a)

Spec == Init /\ [][Next]_vars

----------------------------------------------------------------------------
(* Two processes on one database file. The connection commits every       *)
(* statement on its own, so a running upsert_shift is a sequence of steps *)
(* that the other process's statements interleave with.                   *)

InFlight == {q \in Procs : pc[q] # "idle"}

\* entry of upsert_shift: validation passed (storage.py:790-793)
UBegin(p, x) ==
  /\ pc[p] = "idle"
  /\ hist.inited
  /\ UpsertValid(x)
  /\ db.seqS + Cardinality(InFlight) < MaxShiftId
  /\ pc' = [pc EXCEPT ![p] = "read"]
  /\ loc' = [loc EXCEPT ![p] = [x |-> x, existing |-> {}, ts |-> NoTs]]
  /\ UNCHANGED <<db, now, hist>>

\* existing = _sqlite_get_shift(...); ts = _now() (storage.py:841-842)
URead(p) ==
  /\ pc[p] = "read"
  /\ loc' = [loc EXCEPT ![p].existing = sqlite_get_shift(db, loc[p].x.shift_date, loc[p].x.username),
                        ![p].ts = now]
  /\ pc' = [pc EXCEPT ![p] = "write"]
  /\ UNCHANGED <<db, now, hist>>

\* the UPDATE by id, or the INSERT without its except clause: the
\* IntegrityError reaches the caller
UWriteNoCatch(p) ==
  /\ pc[p] = "write"
  /\ LET payload == UpsertPayload(loc[p].x, loc[p].ts)
         i == SqlInsertShift(db, payload, loc[p].ts)
     IN IF loc[p].existing # {}
        THEN /\ db' = SqlUpdateShiftById(db, (CHOOSE e \in loc[p].existing : TRUE).id, payload)
             /\ pc' = [pc EXCEPT ![p] = "readback"]
             /\ hist' = IF WriteApplied(db, loc[p].existing)
                        THEN [hist EXCEPT !.lastWrite = SetLast(@, KeyOf(loc[p].x), payload)]
                        ELSE hist
             /\ loc' = loc
        ELSE IF i.ok
        THEN /\ db' = i.db
             /\ pc' = [pc EXCEPT ![p] = "readback"]
             /\ hist' = [hist EXCEPT !.lastWrite = SetLast(@, KeyOf(loc[p].x), payload)]
             /\ loc' = loc
        ELSE /\ db' = db
             /\ pc' = [pc EXCEPT ![p] = "idle"]
             /\ hist' = [hist EXCEPT !.dupErr = TRUE,
                                     !.call = Call("upsert", "integrity", loc[p].x, <<>>)]
             /\ loc' = [loc EXCEPT ![p] = NoLoc[p]]
  /\ UNCHANGED now

\* the UPDATE by id (storage.py:879-896) or the INSERT (storage.py:898-903),
\* whose IntegrityError is caught (storage.py:904)
UWrite(p) ==
  /\ pc[p] = "write"
  /\ LET payload == UpsertPayload(loc[p].x, loc[p].ts)
         i == SqlInsertShift(db, payload, loc[p].ts)
     IN IF loc[p].existing # {}
        THEN /\ db' = SqlUpdateShiftById(db, (CHOOSE e \in loc[p].existing : TRUE).id, payload)
             /\ pc' = [pc EXCEPT ![p] = "readback"]
             /\ hist' = IF WriteApplied(db, loc[p].existing)
                        THEN [hist EXCEPT !.lastWrite = SetLast(@, KeyOf(loc[p].x), payload)]
                        ELSE hist
        ELSE IF i.ok
        THEN /\ db' = i.db
             /\ pc' = [pc EXCEPT ![p] = "readback"]
             /\ hist' = [hist EXCEPT !.lastWrite = SetLast(@, KeyOf(loc[p].x), payload)]
        ELSE /\ db' = db
             /\ pc' = [pc EXCEPT ![p] = "dedupe"]
             /\ hist' = hist
  /\ UNCHANGED <<now, loc>>

\* _sqlite_dedupe_shifts(conn) in the except clause (storage.py:906)
UDedupe(p) ==
  /\ pc[p] = "dedupe"
  /\ db' = sqlite_dedupe_shifts(db)
  /\ pc' = [pc EXCEPT ![p] = "replace"]
  /\ UNCHANGED <<now, hist, loc>>

\* INSERT OR REPLACE, and the UPDATE by key should it raise (storage.py:907-927)
UReplace(p) ==
  /\ pc[p] = "replace"
  /\ LET payload == UpsertPayload(loc[p].x, loc[p].ts)
         r == SqlInsertOrReplaceShift(db, payload, loc[p].ts)
     IN /\ db' = IF r.ok THEN r.db ELSE SqlUpdateShiftByKey(db, payload)
        /\ hist' = [hist EXCEPT !.lastWrite = SetLast(@, KeyOf(loc[p].x), payload)]
  /\ pc' = [pc EXCEPT ![p] = "readback"]
  /\ UNCHANGED <<now, loc>>

\* return get_shift(...) (storage.py:930)
UReturn(p) ==
  /\ pc[p] = "readback"
  /\ hist' = [hist EXCEPT !.call = Call("upsert", "none", loc[p].x, <<>>),
                          !.upserted = @ \cup {KeyOf(loc[p].x)}]
  /\ pc' = [pc EXCEPT ![p] = "idle"]
  /\ loc' = [loc EXCEPT ![p] = NoLoc[p]]
  /\ UNCHANGED <<db, now>>

\* the records the form submits: every required field filled in
ConcInputs == {x \in ShiftInputs : UpsertValid(x) /\ NotNullOk(UpsertPayload(x, NoTs))}

\* the database init_storage leaves on a new file
InitConc ==
  /\ db = init_sqlite(EmptyDb, FirstNow).db
  /\ now = FirstNow
  /\ hist = [Hist0(EmptyDb) EXCEPT !.inited = TRUE, !.runs = 1,
                                   !.call = Call("init", "none", <<>>, <<>>)]
  /\ pc = Idle
  /\ loc = NoLoc

NextConc ==
  \/ Tick
  \/ \E p \in Procs, x \in ConcInputs : UBegin(p, x)
  \/ \E p \in Procs : URead(p)
  \/ \E p \in Procs : UWrite(p)
  \/ \E p \in Procs : UDedupe(p)
  \/ \E p \in Procs : UReplace(p)
  \/ \E p \in Procs : UReturn(p)
  \/ \E a \in ActivityInputs : AddActivity(<<"1">>, <<"a">>, a)

SpecConc == InitConc /\ [][NextConc]_vars

----------------------------------------------------------------------------
(* One session of facade calls on a database earlier sessions filled *)

K1 == <<<<"1">>, <<"a">>>>
K2 == <<<<"2">>, <<"a">>>>
K3 == <<<<"1">>, <<"b">>>>
Keys == {K1, K2, K3}

\* a record of the shift form with every required field filled in
FormShift(k, client) ==
  [shift_date |-> k[1], username |-> k[2], client |-> client,
   mismatch |-> FALSE, shift_hours |-> <<8>>]

Blanks == {ABSENT, NULLT, <<>>, <<SP>>}

ApiShiftInputs ==
  {FormShift(K1, <<"c">>), FormShift(K2, <<"e">>)}
  \cup {FormShift(k, b) : k \in {K1, K2}, b \in Blanks}
  \cup {FormShift(<<K1[1], b>>, <<"c">>) : b \in Blanks}
  \cup {FormShift(<<b, K1[2]>>, <<"c">>) : b \in Blanks}

Act(start_ts, start_time, end_ts, end_time, code, label, notes, tool, hole_id) ==
  [start_ts |-> start_ts, start_time |-> start_time, end_ts |-> end_ts,
   end_time |-> end_time, code |-> code, label |-> label, notes |-> notes,
   tool |-> tool, hole_id |-> hole_id]

ValidActs ==
  {Act(2, NoTs, NoTs, NoTs, LOG, <<"x">>, <<"n">>, <<"t">>, NULLT),
   Act(NoTs, 1, NoTs, 2, OTH, <<"y">>, <<>>, NULLT, NULLT),
   Act(1, NoTs, 2, NoTs, LOG, <<"x">>, NULLT, NULLT, <<"h", SP>>)}

BlankActs ==
  {Act(NoTs, NoTs, 2, NoTs, LOG, <<"x">>, NULLT, NULLT, NULLT),
   Act(TsSpace, 1, 2, NoTs, OTH, <<"y">>, NULLT, NULLT, NULLT),
   Act(NoTs, TsSpace, NoTs, NoTs, OTH, <<"y">>, NULLT, NULLT, <<"h">>),
   Act(1, NoTs, TsSpace, 2, LOG, <<"x">>, NULLT, NULLT, <<"h">>),
   Act(1, NoTs, NoTs, TsSpace, LOG, <<"x">>, NULLT, NULLT, NULLT),
   Act(1, NoTs, 2, NoTs, NULLT, <<"x">>, NULLT, NULLT, <<"h">>),
   Act(1, NoTs, 2, NoTs, <<SP>>, <<"x">>, NULLT, NULLT, NULLT),
   Act(1, NoTs, 2, NoTs, LOG, NULLT, NULLT, NULLT, NULLT),
   Act(1, NoTs, 2, NoTs, OTH, <<SP, SP>>, NULLT, NULLT, <<"h">>)}

ApiActs == ValidActs \cup BlankActs

ActIds == 1..4

Vehicle(barcode, name) == [barcode |-> barcode, name |-> name]

VehicleLists ==
  {<<>>,
   <<Vehicle(<<"v">>, <<"n">>)>>,
   <<Vehicle(<<"w">>, <<"n">>)>>,
   <<Vehicle(<<"v">>, <<"m">>), Vehicle(<<"w">>, ABSENT)>>}

\* the databases of earlier sessions, built by the calls that fill them
Seed0 == init_sqlite(EmptyDb, 1).db
Seed1 == upsert_shift(Seed0, FormShift(K1, <<"c">>), 1).db
Seed2 == upsert_shift(Seed1, FormShift(K3, <<"c">>), 1).db
Seed3 ==
  add_activity(Seed2, K1[1], K1[2],
               Act(2, NoTs, NoTs, NoTs, LOG, <<"x">>, NULLT, NULLT, NULLT), 1).db
Seed4 ==
  add_activity(Seed3, K1[1], K1[2],
               Act(1, NoTs, 2, NoTs, OTH, <<"y">>, NULLT, NULLT, NULLT), 2).db
Seed5 ==
  add_activity(Seed4, K3[1], K3[2],
               Act(1, NoTs, 2, NoTs, LOG, <<"x">>, NULLT, NULLT, <<"h">>), 2).db
SeedSf == [EmptyDb EXCEPT !.session = TRUE]

ApiSeeds == {Seed0, Seed1, Seed2, Seed4, Seed5, SeedSf}

CallUpsertShift(x) ==
  /\ hist.calls < MaxCalls
  /\ LET r == upsert_shift_any(db, x, now)
     IN /\ db' = r.db
        /\ hist' = [hist EXCEPT !.call = Call("upsert", r.err, x, r.out),
                                !.calls = @ + 1, !.okPrev = FALSE]
  /\ UNCHANGED <<now, pc, loc>>

CallAddActivity(k, a) ==
  /\ hist.calls < MaxCalls
  /\ LET r == add_activity(db, k[1], k[2], a, now)
     IN /\ db' = r.db
        /\ hist' = [hist EXCEPT !.call = Call("add", r.err, [k |-> k, a |-> a], <<>>),
                                !.calls = @ + 1, !.okPrev = FALSE]
  /\ UNCHANGED <<now, pc, loc>>

CallUpdateActivity(k, id, a) ==
  /\ hist.calls < MaxCalls
  /\ LET r == update_activity(db, k[1], k[2], id, a, now)
     IN /\ db' = r.db
        /\ hist' = [hist EXCEPT
                      !.call = Call("update", r.err, [k |-> k, id |-> id, a |-> a], <<>>),
                      !.calls = @ + 1, !.okPrev = FALSE]
  /\ UNCHANGED <<now, pc, loc>>

CallDeleteActivity(k, id) ==
  /\ hist.calls < MaxCalls
  /\ db' = delete_activity(db, k[1], k[2], id)
  /\ hist' = [hist EXCEPT !.call = Call("delete", "none", [k |-> k, id |-> id], <<>>),
                          !.calls = @ + 1, !.okPrev = FALSE]
  /\ UNCHANGED <<now, pc, loc>>

CallListActivities(k) ==
  /\ hist.calls < MaxCalls
  /\ db' = db
  /\ hist' = [hist EXCEPT !.call = Call("list", "none", [k |-> k],
                                        list_activities(db, k[1], k[2])),
                          !.calls = @ + 1, !.okPrev = FALSE]
  /\ UNCHANGED <<now, pc, loc>>

CallUpsertReferenceData(V) ==
  /\ hist.calls < MaxCalls
  /\ db' = upsert_reference_data(db, V)
  /\ hist' = [hist EXCEPT !.call = Call("refdata", "none", [V |-> V], <<>>),
                          !.calls = @ + 1, !.okPrev = FALSE]
  /\ UNCHANGED <<now, pc, loc>>

InitApi ==
  /\ db \in ApiSeeds
  /\ now = FirstNow
  /\ hist = [Hist0(db) EXCEPT !.inited = TRUE, !.runs = 1,
                              !.call = Call("init", "none", <<>>, <<>>)]
  /\ pc = Idle
  /\ loc = NoLoc

NextApi ==
  \/ Tick
  \/ \E x \in ApiShiftInputs : CallUpsertShift(x)
  \/ \E k \in Keys, a \in ApiActs : CallAddActivity(k, a)
  \/ \E k \in Keys, id \in ActIds, a \in ApiActs : CallUpdateActivity(k, id, a)
  \/ \E k \in Keys, id \in ActIds : CallDeleteActivity(k, id)
  \/ \E k \in Keys : CallListActivities(k)
  \/ \E V \in VehicleLists : CallUpsertReferenceData(V)

SpecApi == InitApi /\ [][NextApi]_vars

----------------------------------------------------------------------------
(* The retry wrapper _retry_locked(fn), storage.py:134-143, run by p1 *)

\* retries: int = 30
Retries == 30

UpperCase ==
  <<"A", "B", "C", "D", "E", "F", "G", "H", "I", "J", "K", "L", "M", "N", "O", "P", "Q",
    "R", "S", "T", "U", "V", "W", "X", "Y", "Z">>
LowerCase ==
  <<"a", "b", "c", "d", "e", "f", "g", "h", "i", "j", "k", "l", "m", "n", "o", "p", "q",
    "r", "s", "t", "u", "v", "w", "x", "y", "z">>

\* str.lower() on the letters the messages use
LowerChar(c) ==
  IF \E i \in 1..Len(UpperCase) : UpperCase[i] = c
  THEN LowerCase[CHOOSE i \in 1..Len(UpperCase) : UpperCase[i] = c]
  ELSE c

Lower(t) == [i \in 1..Len(t) |-> LowerChar(t[i])]

\* t in u
Contains(u, t) == \E i \in 1..(Len(u) - Len(t) + 1) : SubSeq(u, i, i + Len(t) - 1) = t

Locked == <<"l", "o", "c", "k", "e", "d">>

\* "locked" in str(e).lower()
IsLockedError(msg) == Contains(Lower(msg), Locked)

\* messages of the OperationalError a statement may raise
ErrorMessages ==
  {<<"d", "b", " ", "l", "o", "c", "k", "e", "d">>,
   <<"L", "o", "c", "k", "e", "d", " ", "d", "b">>,
   <<"L", "O", "C", "K", "E", "D">>,
   <<"l", "o", "c", "k">>,
   <<"b", "a", "d">>}

\* what a statement may return
StatementResults == {"cursor1", "cursor2"}

\* the loop variable left where it was
SameAttempt(i) == i

\* the loop variable after an attempt that reported a lock
NextAttempt(i) == i + 1

\* the wrapper entered: i the loop variable, calls the invocations of fn,
\* slept the tenths of a second slept, e the message caught last
RetryLoc0 ==
  [i |-> 0, calls |-> 0, slept |-> 0, e |-> <<>>, result |-> "none", firstOk |-> 0]

\* fn() returns: return fn()
RetrySucceeds(v) ==
  /\ pc["p1"] = "retry"
  /\ loc["p1"].i < Retries
  /\ loc' = [loc EXCEPT !["p1"].calls = @ + 1, !["p1"].result = v,
                        !["p1"].firstOk = loc["p1"].calls + 1]
  /\ pc' = [pc EXCEPT !["p1"] = "returned"]
  /\ UNCHANGED <<db, now, hist>>

\* fn() raises an OperationalError that names a lock: sleep and continue
RetryLocked(msg) ==
  /\ pc["p1"] = "retry"
  /\ loc["p1"].i < Retries
  /\ IsLockedError(msg)
  /\ loc' = [loc EXCEPT !["p1"].calls = @ + 1, !["p1"].e = msg,
                        !["p1"].slept = @ + (loc["p1"].i + 1),
                        !["p1"].i = NextAttempt(@)]
  /\ UNCHANGED <<db, now, hist, pc>>

\* an OperationalError without a lock in its message, caught and retried
RetryAnyError(msg) ==
  /\ pc["p1"] = "retry"
  /\ loc["p1"].i < Retries
  /\ ~IsLockedError(msg)
  /\ loc' = [loc EXCEPT !["p1"].calls = @ + 1, !["p1"].e = msg, !["p1"].i = @ + 1]
  /\ UNCHANGED <<db, now, hist, pc>>

\* fn() raises any other OperationalError: raise
RetryRaises(msg) ==
  /\ pc["p1"] = "retry"
  /\ loc["p1"].i < Retries
  /\ ~IsLockedError(msg)
  /\ loc' = [loc EXCEPT !["p1"].calls = @ + 1, !["p1"].e = msg]
  /\ pc' = [pc EXCEPT !["p1"] = "raised"]
  /\ UNCHANGED <<db, now, hist>>

\* the loop ran out: raise OperationalError("database is locked (retry exhausted)")
RetryExhausted ==
  /\ pc["p1"] = "retry"
  /\ loc["p1"].i >= Retries
  /\ pc' = [pc EXCEPT !["p1"] = "exhausted"]
  /\ UNCHANGED <<db, now, hist, loc>>

InitRetry ==
  /\ db = init_sqlite(EmptyDb, FirstNow).db
  /\ now = FirstNow
  /\ hist = [Hist0(EmptyDb) EXCEPT !.inited = TRUE, !.runs = 1,
                                   !.call = Call("init", "none", <<>>, <<>>)]
  /\ pc = [Idle EXCEPT !["p1"] = "retry"]
  /\ loc = [NoLoc EXCEPT !["p1"] = RetryLoc0]

RetryStep ==
  \/ \E v \in StatementResults : RetrySucceeds(v)
  \/ \E msg \in ErrorMessages : RetryLocked(msg)
  \/ \E msg \in ErrorMessages : RetryRaises(msg)
  \/ RetryExhausted

\* the wrapper is scheduled until it returns or raises
SpecRetry == InitRetry /\ [][RetryStep]_vars /\ WF_vars(RetryStep)

----------------------------------------------------------------------------
(* Opening a connection, _sqlite_conn(), storage.py:64-81, run by p1 *)

\* for i in range(30)
WalAttempts == 30

\* the connection before sqlite3.connect: fk is PRAGMA foreign_keys, wal and
\* sync whether journal_mode=WAL and synchronous=NORMAL took effect, i the
\* loop variable, lockedWal the attempts whose journal_mode statement
\* reported a lock, slept the hundredths of a second slept
ConnLoc0 ==
  [i |-> 0, fk |-> FALSE, wal |-> FALSE, sync |-> FALSE, lockedWal |-> 0,
   slept |-> 0, e |-> <<>>]

\* connect, busy_timeout, PRAGMA foreign_keys=ON (storage.py:66-69)
ConnOpen ==
  /\ pc["p1"] = "connect"
  /\ loc' = [loc EXCEPT !["p1"].fk = TRUE]
  /\ pc' = [pc EXCEPT !["p1"] = "wal"]
  /\ UNCHANGED <<db, now, hist>>

\* both PRAGMAs of an attempt succeed: break, return conn
ConnWalSet ==
  /\ pc["p1"] = "wal"
  /\ loc["p1"].i < WalAttempts
  /\ loc' = [loc EXCEPT !["p1"].wal = TRUE, !["p1"].sync = TRUE]
  /\ pc' = [pc EXCEPT !["p1"] = "returned"]
  /\ UNCHANGED <<db, now, hist>>

\* a PRAGMA of the attempt raises an OperationalError that names a lock:
\* sleep 0.15 * (i + 1) and continue; at says which statement raised, and
\* journal_mode has taken effect when it was the second
ConnWalLocked(at, msg) ==
  /\ pc["p1"] = "wal"
  /\ loc["p1"].i < WalAttempts
  /\ IsLockedError(msg)
  /\ loc' = [loc EXCEPT !["p1"].wal = (@ \/ at = "synchronous"),
                        !["p1"].lockedWal = IF at = "journal_mode" THEN @ + 1 ELSE @,
                        !["p1"].slept = @ + 15 * (loc["p1"].i + 1),
                        !["p1"].e = msg,
                        !["p1"].i = @ + 1]
  /\ UNCHANGED <<db, now, hist, pc>>

\* a PRAGMA of the attempt raises any other OperationalError: raise
ConnWalRaises(at, msg) ==
  /\ pc["p1"] = "wal"
  /\ loc["p1"].i < WalAttempts
  /\ ~IsLockedError(msg)
  /\ loc' = [loc EXCEPT !["p1"].wal = (@ \/ at = "synchronous"), !["p1"].e = msg]
  /\ pc' = [pc EXCEPT !["p1"] = "raised"]
  /\ UNCHANGED <<db, now, hist>>

\* the for loop ran out without a break; the statement after it is
\* return conn (storage.py:81)
ConnLoopEnds ==
  /\ pc["p1"] = "wal"
  /\ loc["p1"].i >= WalAttempts
  /\ pc' = [pc EXCEPT !["p1"] = "returned"]
  /\ UNCHANGED <<db, now, hist, loc>>

InitConn ==
  /\ db = init_sqlite(EmptyDb, FirstNow).db
  /\ now = FirstNow
  /\ hist = [Hist0(EmptyDb) EXCEPT !.inited = TRUE, !.runs = 1,
                                   !.call = Call("init", "none", <<>>, <<>>)]
  /\ pc = [Idle EXCEPT !["p1"] = "connect"]
  /\ loc = [NoLoc EXCEPT !["p1"] = ConnLoc0]

PragmaStatements == {"journal_mode", "synchronous"}

ConnStep ==
  \/ ConnOpen
  \/ ConnWalSet
  \/ \E at \in PragmaStatements, msg \in ErrorMessages : ConnWalLocked(at, msg)
  \/ \E at \in PragmaStatements, msg \in ErrorMessages : ConnWalRaises(at, msg)
  \/ ConnLoopEnds

SpecConn == InitConn /\ [][ConnStep]_vars

----------------------------------------------------------------------------
(* _init_sqlite statement by statement, storage.py:557-639. Each execute() *)
(* commits on its own, so the statements of another process running       *)
(* init_storage on the same file fall between any two of them. A table    *)
(* that does not exist has its shape (shiftCols, actCols) "none".         *)

\* activities_new or shifts_new before its CREATE TABLE and after its
\* DROP TABLE or RENAME
NoTable == [exists |-> FALSE, rows |-> {}, seq |-> 0]

\* the file with the two scratch tables of the migrators
WithScratch(d) == d @@ [shiftsNew |-> NoTable, actsNew |-> NoTable]

\* the shifts_new and activities_new tables left out of the comparison
Tables(d) == [k \in DOMAIN d \ {"shiftsNew", "actsNew"} |-> d[k]]

\* the locals of one _init_sqlite call: fk is PRAGMA foreign_keys of its
\* connection, err the exception on its way to the caller, done the passes
\* entered so far, todo and todo2 what the running loops have left,
\* dedupeErr whether the deduplication pass caught an exception, locked
\* whether a statement of the call gave up on a lock held from outside,
\* retried the lock reports after which a statement was attempted again
InitLoc0 ==
  [fk |-> FALSE, err |-> "none", done |-> <<>>, default |-> NULLT, now_ts |-> NoTs,
   todo |-> <<>>, todo2 |-> <<>>, keep_id |-> NoId, dedupeErr |-> FALSE,
   locked |-> FALSE, retried |-> 0]

\* statements inside the try block of the shift migrator (storage.py:482-553)
TryStages ==
  {"migS_dropNew", "migS_createNew", "migS_insert", "migS_repoint", "migS_drop",
   "migS_rename"}

\* statements inside the try block of the deduplication pass (157-179)
DedupeStages == {"dedupe", "dedupe_group", "dedupe_update", "dedupe_delete"}

\* unique index first, deduplication after it
StageAfterIndexFirst(stage) ==
  CASE stage = "create" -> "migS"
    [] stage = "migS" -> "migA"
    [] stage = "migA" -> "index"
    [] stage = "index" -> "dedupe"
    [] stage = "dedupe" -> "returned"

\* the order of the passes of _init_sqlite (storage.py:630-639)
StageAfter(stage) ==
  CASE stage = "create" -> "migS"
    [] stage = "migS" -> "migA"
    [] stage = "migA" -> "dedupe"
    [] stage = "dedupe" -> "index"
    [] stage = "index" -> "returned"

\* an exception leaves the shift migrator at once, foreign keys still off
AfterErrorNoFinally(stage) ==
  IF stage \in DedupeStages THEN StageAfter("dedupe") ELSE "raised"

\* where a statement that raises sends the call: to the finally clause of
\* the shift migrator (554-555), past the deduplication pass (180-182:
\* except Exception: pass), else out of init_storage
AfterError(stage) ==
  IF stage \in TryStages THEN "migS_fkon"
  ELSE IF stage \in DedupeStages THEN StageAfter("dedupe")
  ELSE "raised"

\* the locals after a statement raised an exception of the given kind
Caught(l, stage, kind) ==
  IF stage \in DedupeStages THEN [l EXCEPT !.dedupeErr = TRUE] ELSE [l EXCEPT !.err = kind]

\* the statement of p at its stage raises
Raises(p, kind) ==
  /\ pc' = [pc EXCEPT ![p] = AfterError(pc[p])]
  /\ loc' = [loc EXCEPT ![p] = Caught(@, pc[p], kind)]

\* a write to a table whose foreign key names shifts is refused on a
\* connection with foreign_keys=ON while there is no shifts table
\* ("no such table: main.shifts")
ParentMissing(d, fk) == fk /\ d.shiftCols = "none"

\* c = _sqlite_conn(): PRAGMA foreign_keys=ON (storage.py:69, 558)
IOpen(p) ==
  /\ pc[p] = "start"
  /\ loc' = [loc EXCEPT ![p].fk = TRUE]
  /\ pc' = [pc EXCEPT ![p] = "createShifts"]
  /\ UNCHANGED <<db, now, hist>>

\* CREATE TABLE IF NOT EXISTS shifts (storage.py:582-607)
ICreateShifts(p) ==
  /\ pc[p] = "createShifts"
  /\ db' = IF db.shiftCols = "none"
           THEN [db EXCEPT !.shiftCols = "canon", !.shifts = {}, !.seqS = 0,
                           !.userDefault = NULLT, !.uq = FALSE]
           ELSE db
  /\ pc' = [pc EXCEPT ![p] = "createActs"]
  /\ UNCHANGED <<now, hist, loc>>

\* CREATE TABLE IF NOT EXISTS activities (storage.py:609-628)
ICreateActs(p) ==
  /\ pc[p] = "createActs"
  /\ db' = IF db.actCols = "none"
           THEN [db EXCEPT !.actCols = "canon", !.acts = {}, !.seqA = 0]
           ELSE db
  /\ pc' = [pc EXCEPT ![p] = StageAfter("create")]
  /\ UNCHANGED <<now, hist, loc>>

\* _sqlite_migrate_shifts_to_new begins: cols and the column defaults; no
\* table, or the canonical columns: return (storage.py:301-335)
MigSCols(p) ==
  /\ pc[p] = "migS"
  /\ pc' = [pc EXCEPT ![p] = IF db.shiftCols \in {"none", "canon"}
                             THEN StageAfter("migS") ELSE "migS_select"]
  /\ loc' = [loc EXCEPT ![p].done = Append(@, "shifts"), ![p].default = db.userDefault]
  /\ UNCHANGED <<db, now, hist>>

\* the pairs (keep_id, old_id) of the UPDATE loop (storage.py:546-550)
MigRepoints(canon, keepers) ==
  LET others == SortById(canon \ keepers)
  IN [i \in 1..Len(others) |->
        <<(CHOOSE k \in keepers : SameKey(k, others[i])).id, others[i].id>>]

\* rows = SELECT * FROM shifts, and the loop that derives canonical_by_id
\* and keep_by_key from them (storage.py:337-479)
MigSSelect(p) ==
  /\ pc[p] = "migS_select"
  /\ IF db.shiftCols = "none"
     THEN Raises(p, "operational")
     ELSE LET canon == {MigCanon(r, loc[p].default, now) : r \in MigRows(db)}
              keepers == MigKeepers(canon)
          IN /\ loc' = [loc EXCEPT ![p].now_ts = now,
                                   ![p].todo = SortById(keepers),
                                   ![p].todo2 = MigRepoints(canon, keepers)]
             /\ pc' = [pc EXCEPT ![p] = "migS_fkoff"]
  /\ UNCHANGED <<db, now, hist>>

\* conn.execute("PRAGMA foreign_keys=OFF;") (storage.py:481)
MigSFkOff(p) ==
  /\ pc[p] = "migS_fkoff"
  /\ loc' = [loc EXCEPT ![p].fk = FALSE]
  /\ pc' = [pc EXCEPT ![p] = "migS_dropNew"]
  /\ UNCHANGED <<db, now, hist>>

\* DROP TABLE IF EXISTS shifts_new (storage.py:483)
MigSDropNew(p) ==
  /\ pc[p] = "migS_dropNew"
  /\ db' = [db EXCEPT !.shiftsNew = NoTable]
  /\ pc' = [pc EXCEPT ![p] = "migS_createNew"]
  /\ UNCHANGED <<now, hist, loc>>

\* CREATE TABLE shifts_new (storage.py:484-511): raises when it exists
MigSCreateNew(p) ==
  /\ pc[p] = "migS_createNew"
  /\ IF db.shiftsNew.exists
     THEN Raises(p, "operational") /\ UNCHANGED db
     ELSE /\ db' = [db EXCEPT !.shiftsNew = [exists |-> TRUE, rows |-> {}, seq |-> 0]]
          /\ pc' = [pc EXCEPT ![p] = "migS_insert"]
          /\ UNCHANGED loc
  /\ UNCHANGED <<now, hist>>

\* one INSERT INTO shifts_new of the keeper loop (storage.py:539-544)
MigSInsert(p) ==
  /\ pc[p] = "migS_insert"
  /\ IF loc[p].todo = <<>>
     THEN /\ pc' = [pc EXCEPT ![p] = "migS_repoint"]
          /\ UNCHANGED <<db, loc>>
     ELSE LET k == Head(loc[p].todo)
          IN IF ~db.shiftsNew.exists
             THEN Raises(p, "operational") /\ UNCHANGED db
             ELSE IF k.id \in {r.id : r \in db.shiftsNew.rows}
             THEN Raises(p, "integrity") /\ UNCHANGED db
             ELSE /\ db' = [db EXCEPT !.shiftsNew.rows = @ \cup {k},
                                      !.shiftsNew.seq = MaxOf({@, k.id})]
                  /\ loc' = [loc EXCEPT ![p].todo = Tail(@)]
                  /\ UNCHANGED pc
  /\ UNCHANGED <<now, hist>>

\* one UPDATE activities SET shift_id=keep WHERE shift_id=old of the loop
\* over the other rows (storage.py:546-550); foreign keys are off
MigSRepoint(p) ==
  /\ pc[p] = "migS_repoint"
  /\ IF loc[p].todo2 = <<>>
     THEN /\ pc' = [pc EXCEPT ![p] = "migS_drop"]
          /\ UNCHANGED <<db, loc>>
     ELSE LET m == Head(loc[p].todo2)
          IN IF db.actCols = "none" \/ ParentMissing(db, loc[p].fk)
             THEN Raises(p, "operational") /\ UNCHANGED db
             ELSE /\ db' = [db EXCEPT !.acts = SqlRepoint(@, m[1], m[2])]
                  /\ loc' = [loc EXCEPT ![p].todo2 = Tail(@)]
                  /\ UNCHANGED pc
  /\ UNCHANGED <<now, hist>>

\* DROP TABLE of shifts, with its index; with foreign_keys=ON the rows go
\* by an implicit DELETE that cascades to the activities
DropShifts(d, fk) ==
  [d EXCEPT !.shifts = {}, !.shiftCols = "none", !.seqS = 0, !.uq = FALSE,
            !.userDefault = NULLT,
            !.acts = IF fk THEN {a \in @ : a.shift_id \notin ShiftIds(d)} ELSE @]

\* DROP TABLE IF EXISTS shifts (storage.py:552)
MigSDrop(p) ==
  /\ pc[p] = "migS_drop"
  /\ db' = DropShifts(db, loc[p].fk)
  /\ pc' = [pc EXCEPT ![p] = "migS_rename"]
  /\ UNCHANGED <<now, hist, loc>>

\* ALTER TABLE shifts_new RENAME TO shifts (storage.py:553): raises when
\* shifts_new is gone or a shifts table exists
MigSRename(p) ==
  /\ pc[p] = "migS_rename"
  /\ IF ~db.shiftsNew.exists \/ db.shiftCols # "none"
     THEN Raises(p, "operational") /\ UNCHANGED db
     ELSE /\ db' = [db EXCEPT !.shifts = db.shiftsNew.rows, !.shiftCols = "canon",
                              !.seqS = db.shiftsNew.seq, !.userDefault = NULLT,
                              !.uq = FALSE, !.shiftsNew = NoTable]
          /\ pc' = [pc EXCEPT ![p] = "migS_fkon"]
          /\ UNCHANGED loc
  /\ UNCHANGED <<now, hist>>

\* finally: conn.execute("PRAGMA foreign_keys=ON;") (storage.py:554-555),
\* then the migrator returns, or the exception goes on to the caller
MigSFkOn(p) ==
  /\ pc[p] = "migS_fkon"
  /\ loc' = [loc EXCEPT ![p].fk = TRUE]
  /\ pc' = [pc EXCEPT ![p] = IF loc[p].err = "none" THEN StageAfter("migS") ELSE "raised"]
  /\ UNCHANGED <<db, now, hist>>

\* _sqlite_migrate_activities_to_new begins: cols, the hole foreign key and
\* needs_migration (storage.py:190-202); a table that is not there has no
\* columns and needs the rebuild
MigACols(p) ==
  /\ pc[p] = "migA"
  /\ pc' = [pc EXCEPT ![p] = IF db.actCols = "none" \/ ActsNeedMigration(db)
                             THEN "migA_dropNew" ELSE "migA_scanSelect"]
  /\ loc' = [loc EXCEPT ![p].done = Append(@, "activities")]
  /\ UNCHANGED <<db, now, hist>>

\* rows = SELECT id, code, hole_id, ... FROM activities of the canonical
\* table; except Exception: return (storage.py:203-207)
MigAScanSelect(p) ==
  /\ pc[p] = "migA_scanSelect"
  /\ IF db.actCols = "none"
     THEN /\ pc' = [pc EXCEPT ![p] = StageAfter("migA")]
          /\ UNCHANGED loc
     ELSE /\ loc' = [loc EXCEPT ![p].now_ts = now, ![p].todo = SortById(db.acts)]
          /\ pc' = [pc EXCEPT ![p] = "migA_scan"]
  /\ UNCHANGED <<db, now, hist>>

\* one round of the scan loop (storage.py:208-223) on the row as it was
\* read: the UPDATE of a LOG row without a hole, then the hole upsert
MigAScan(p) ==
  /\ pc[p] = "migA_scan"
  /\ IF loc[p].todo = <<>>
     THEN /\ pc' = [pc EXCEPT ![p] = StageAfter("migA")]
          /\ UNCHANGED <<db, loc>>
     ELSE LET r == Head(loc[p].todo)
              fill == r.code = LOG /\ ~Truthy(normalize_hole_id(r.hole_id))
              st == BackfillScan(<<r>>, [acts |-> db.acts, holes |-> db.holes,
                                         gen |-> db.gen, ok |-> TRUE], loc[p].now_ts)
          IN IF fill /\ (db.actCols = "none" \/ ParentMissing(db, loc[p].fk))
             THEN Raises(p, "operational") /\ db' = [db EXCEPT !.gen = @ + 1]
             ELSE IF ~st.ok
             THEN Raises(p, "integrity") /\ db' = [db EXCEPT !.gen = st.gen]
             ELSE /\ db' = [db EXCEPT !.acts = st.acts, !.holes = st.holes, !.gen = st.gen]
                  /\ loc' = [loc EXCEPT ![p].todo = Tail(@)]
                  /\ UNCHANGED pc
  /\ UNCHANGED <<now, hist>>

\* DROP TABLE IF EXISTS activities_new (storage.py:226)
MigADropNew(p) ==
  /\ pc[p] = "migA_dropNew"
  /\ db' = [db EXCEPT !.actsNew = NoTable]
  /\ pc' = [pc EXCEPT ![p] = "migA_createNew"]
  /\ UNCHANGED <<now, hist, loc>>

\* CREATE TABLE activities_new (storage.py:227-247): raises when it exists
MigACreateNew(p) ==
  /\ pc[p] = "migA_createNew"
  /\ IF db.actsNew.exists
     THEN Raises(p, "operational") /\ UNCHANGED db
     ELSE /\ db' = [db EXCEPT !.actsNew = [exists |-> TRUE, rows |-> {}, seq |-> 0]]
          /\ pc' = [pc EXCEPT ![p] = "migA_select"]
          /\ UNCHANGED loc
  /\ UNCHANGED <<now, hist>>

\* now_ts = _now(); rows = SELECT * FROM activities; except Exception:
\* rows = [] (storage.py:249-253)
MigASelect(p) ==
  /\ pc[p] = "migA_select"
  /\ loc' = [loc EXCEPT ![p].now_ts = now,
                        ![p].todo = IF db.actCols = "none" THEN <<>> ELSE SortById(db.acts)]
  /\ pc' = [pc EXCEPT ![p] = "migA_copy"]
  /\ UNCHANGED <<db, now, hist>>

\* one round of the copy loop (storage.py:254-292): the hole upsert, then
\* INSERT INTO activities_new, whose foreign keys are checked
MigACopy(p) ==
  /\ pc[p] = "migA_copy"
  /\ IF loc[p].todo = <<>>
     THEN /\ pc' = [pc EXCEPT ![p] = "migA_drop"]
          /\ UNCHANGED <<db, loc>>
     ELSE LET r == Head(loc[p].todo)
              st == RebuildCopy(<<r>>, [new |-> db.actsNew.rows, seq |-> db.actsNew.seq,
                                        holes |-> db.holes, gen |-> db.gen, ok |-> TRUE],
                                ShiftIds(db), loc[p].now_ts)
          IN IF ~db.actsNew.exists \/ ParentMissing(db, loc[p].fk)
             THEN /\ Raises(p, "operational")
                  /\ db' = [db EXCEPT !.holes = st.holes, !.gen = st.gen]
             ELSE IF ~st.ok
             THEN /\ Raises(p, "integrity")
                  /\ db' = [db EXCEPT !.holes = st.holes, !.gen = st.gen]
             ELSE /\ db' = [db EXCEPT !.actsNew.rows = st.new, !.actsNew.seq = st.seq,
                                      !.holes = st.holes, !.gen = st.gen]
                  /\ loc' = [loc EXCEPT ![p].todo = Tail(@)]
                  /\ UNCHANGED pc
  /\ UNCHANGED <<now, hist>>

\* DROP TABLE IF EXISTS activities (storage.py:294)
MigADrop(p) ==
  /\ pc[p] = "migA_drop"
  /\ db' = [db EXCEPT !.acts = {}, !.actCols = "none", !.seqA = 0]
  /\ pc' = [pc EXCEPT ![p] = "migA_rename"]
  /\ UNCHANGED <<now, hist, loc>>

\* ALTER TABLE activities_new RENAME TO activities (storage.py:295): raises
\* when activities_new is gone or an activities table exists
MigARename(p) ==
  /\ pc[p] = "migA_rename"
  /\ IF ~db.actsNew.exists \/ db.actCols # "none"
     THEN Raises(p, "operational") /\ UNCHANGED db
     ELSE /\ db' = [db EXCEPT !.acts = db.actsNew.rows, !.actCols = "canon",
                              !.seqA = db.actsNew.seq, !.actsNew = NoTable]
          /\ pc' = [pc EXCEPT ![p] = "migA_index"]
          /\ UNCHANGED loc
  /\ UNCHANGED <<now, hist>>

\* the two CREATE INDEX IF NOT EXISTS ... ON activities (storage.py:296-297)
MigAIndex(p) ==
  /\ pc[p] = "migA_index"
  /\ IF db.actCols = "none"
     THEN Raises(p, "operational")
     ELSE /\ pc' = [pc EXCEPT ![p] = StageAfter("migA")]
          /\ UNCHANGED loc
  /\ UNCHANGED <<db, now, hist>>

RECURSIVE SetToSeq(_)
SetToSeq(S) ==
  IF S = {} THEN <<>>
  ELSE LET x == CHOOSE y \in S : TRUE IN <<x>> \o SetToSeq(S \ {x})

\* rows[1:] of ORDER BY COALESCE(updated_at, created_at, '') DESC, id DESC
RECURSIVE LosersInOrder(_)
LosersInOrder(group) ==
  IF Cardinality(group) <= 1 THEN <<>>
  ELSE LET keep == DedupeKeep(group)
           rest == group \ {keep}
       IN <<DedupeKeep(rest).id>> \o LosersInOrder(rest)

\* _sqlite_dedupe_shifts begins: cols, then the GROUP BY ... HAVING n > 1
\* query (storage.py:158-164); no columns: return
DedupeScan(p) ==
  /\ pc[p] = "dedupe"
  /\ IF db.shiftCols = "none"
     THEN /\ pc' = [pc EXCEPT ![p] = StageAfter("dedupe")]
          /\ loc' = [loc EXCEPT ![p].done = Append(@, "dedupe")]
     ELSE LET dupes == {<<r.shift_date, r.username>> :
                          r \in {x \in db.shifts : \E q \in db.shifts : q # x /\ SameKey(q, x)}}
          IN /\ loc' = [loc EXCEPT ![p].done = Append(@, "dedupe"),
                                   ![p].todo = SetToSeq(dupes)]
             /\ pc' = [pc EXCEPT ![p] = "dedupe_group"]
  /\ UNCHANGED <<db, now, hist>>

\* one round of the loop over the groups: SELECT id ... ORDER BY ...,
\* keep_id = rows[0] (storage.py:165-175)
DedupeGroup(p) ==
  /\ pc[p] = "dedupe_group"
  /\ IF loc[p].todo = <<>>
     THEN /\ pc' = [pc EXCEPT ![p] = StageAfter("dedupe")]
          /\ UNCHANGED loc
     ELSE LET k == Head(loc[p].todo)
              group == {r \in db.shifts : r.shift_date = k[1] /\ r.username = k[2]}
          IN IF db.shiftCols = "none"
             THEN Raises(p, "operational")
             ELSE IF group = {}
             THEN /\ loc' = [loc EXCEPT ![p].todo = Tail(@)]
                  /\ UNCHANGED pc
             ELSE /\ loc' = [loc EXCEPT ![p].keep_id = DedupeKeep(group).id,
                                        ![p].todo2 = LosersInOrder(group)]
                  /\ pc' = [pc EXCEPT ![p] = "dedupe_update"]
  /\ UNCHANGED <<db, now, hist>>

\* UPDATE activities SET shift_id=keep_id WHERE shift_id=sid of the loop
\* over the losing rows (storage.py:176-178)
DedupeUpdate(p) ==
  /\ pc[p] = "dedupe_update"
  /\ IF loc[p].todo2 = <<>>
     THEN /\ loc' = [loc EXCEPT ![p].todo = Tail(@)]
          /\ pc' = [pc EXCEPT ![p] = "dedupe_group"]
          /\ UNCHANGED db
     ELSE LET sid == Head(loc[p].todo2)
          IN IF db.actCols = "none" \/ ParentMissing(db, loc[p].fk)
             THEN Raises(p, "operational") /\ UNCHANGED db
             ELSE IF /\ loc[p].fk
                     /\ loc[p].keep_id \notin ShiftIds(db)
                     /\ \E a \in db.acts : a.shift_id = sid
             THEN Raises(p, "integrity") /\ UNCHANGED db
             ELSE /\ db' = [db EXCEPT !.acts = SqlRepoint(@, loc[p].keep_id, sid)]
                  /\ pc' = [pc EXCEPT ![p] = "dedupe_delete"]
                  /\ UNCHANGED loc
  /\ UNCHANGED <<now, hist>>

\* DELETE FROM shifts WHERE id=sid (storage.py:179)
DedupeDelete(p) ==
  /\ pc[p] = "dedupe_delete"
  /\ LET sid == Head(loc[p].todo2)
     IN IF db.shiftCols = "none"
        THEN Raises(p, "operational") /\ UNCHANGED db
        ELSE /\ db' = IF loc[p].fk THEN SqlDeleteShift(db, sid)
                      ELSE [db EXCEPT !.shifts = {r \in @ : r.id # sid}]
             /\ loc' = [loc EXCEPT ![p].todo2 = Tail(@)]
             /\ pc' = [pc EXCEPT ![p] = "dedupe_update"]
  /\ UNCHANGED <<now, hist>>

\* CREATE UNIQUE INDEX IF NOT EXISTS uq_shifts_user_day and the three plain
\* indexes, commit, close (storage.py:634-639)
IIndex(p) ==
  /\ pc[p] = "index"
  /\ LET i == CreateUniqueIndex(db)
         l == [loc[p] EXCEPT !.done = Append(@, "index")]
     IN IF db.shiftCols = "none"
        THEN /\ pc' = [pc EXCEPT ![p] = "raised"]
             /\ loc' = [loc EXCEPT ![p] = [l EXCEPT !.err = "operational"]]
             /\ UNCHANGED db
        ELSE IF ~i.ok
        THEN /\ pc' = [pc EXCEPT ![p] = "raised"]
             /\ loc' = [loc EXCEPT ![p] = [l EXCEPT !.err = "integrity"]]
             /\ UNCHANGED db
        ELSE IF db.actCols = "none"
        THEN /\ pc' = [pc EXCEPT ![p] = "raised"]
             /\ loc' = [loc EXCEPT ![p] = [l EXCEPT !.err = "operational"]]
             /\ db' = i.db
        ELSE /\ pc' = [pc EXCEPT ![p] = StageAfter("index")]
             /\ loc' = [loc EXCEPT ![p] = l]
             /\ db' = i.db
  /\ UNCHANGED <<now, hist>>

\* stages whose statement runs under _retry_locked
RetriedStages ==
  TryStages \cup {"migA_scan", "migA_dropNew", "migA_createNew", "migA_copy", "migA_drop",
                  "migA_rename", "migA_index", "dedupe_update", "dedupe_delete"}

\* the statement p is about to run finds the file locked on every attempt:
\* raise OperationalError("database is locked (retry exhausted)")
\* (storage.py:143)
ILocked(p) ==
  /\ pc[p] \in RetriedStages
  /\ pc[p] \in {"migS_insert", "migA_scan", "migA_copy"} => loc[p].todo # <<>>
  /\ pc[p] \in {"migS_repoint", "dedupe_update"} => loc[p].todo2 # <<>>
  /\ pc' = [pc EXCEPT ![p] = AfterError(pc[p])]
  /\ loc' = [loc EXCEPT ![p] = [Caught(@, pc[p], "locked") EXCEPT !.locked = TRUE]]
  /\ UNCHANGED <<db, now, hist>>

\* activities of earlier versions, told apart by their labels
LabelOf(j) == IF j = 1 THEN <<"x">> ELSE <<"y">>

RECURSIVE LabelledActTables(_, _)
LabelledActTables(m, sids) ==
  IF m = 0 THEN {{}}
  ELSE {t \cup {ActRow(m + 1, sid, OTH, LabelOf(m), NULLT, <<1, 1>>)} :
          t \in LabelledActTables(m - 1, sids), sid \in sids}

\* the file in a shape of an earlier version: two shift rows of one
\* (shift_date, username), no unique index, and one or two activities
LegacyFiles ==
  {WithScratch(PreDb(shape, S, ashape, A)) :
     shape \in {"canon", "legacy"}, ashape \in {"canon", "legacy"},
     S \in PlainShiftTables(MaxPreShifts),
     A \in UNION {LabelledActTables(m, {1, 2}) : m \in 1..MaxPreActs}}

InitOf(active) ==
  /\ db \in {d \in LegacyFiles : d.shiftCols = "legacy" \/ d.actCols = "legacy"}
  /\ now = FirstNow
  /\ hist = Hist0(db)
  /\ pc = [p \in Procs |-> IF p \in active THEN "start" ELSE "idle"]
  /\ loc = [p \in Procs |-> IF p \in active THEN InitLoc0 ELSE NoLoc[p]]

InitStatements(p) ==
  \/ IOpen(p) \/ ICreateShifts(p) \/ ICreateActs(p)
  \/ MigSCols(p) \/ MigSSelect(p) \/ MigSFkOff(p) \/ MigSDropNew(p) \/ MigSCreateNew(p)
  \/ MigSInsert(p) \/ MigSRepoint(p) \/ MigSDrop(p) \/ MigSRename(p) \/ MigSFkOn(p)
  \/ MigACols(p) \/ MigAScanSelect(p) \/ MigAScan(p) \/ MigADropNew(p)
  \/ MigACreateNew(p) \/ MigASelect(p) \/ MigACopy(p) \/ MigADrop(p) \/ MigARename(p)
  \/ MigAIndex(p)
  \/ DedupeScan(p) \/ DedupeGroup(p) \/ DedupeUpdate(p) \/ DedupeDelete(p)
  \/ IIndex(p)

InitStep(p) == InitStatements(p) \/ ILocked(p)

NextInit == \E p \in Procs : InitStep(p)

\* one process runs init_storage on the file
InitInit1 == InitOf({"p1"})

SpecInit1 == InitInit1 /\ [][NextInit]_vars

\* two processes run init_storage on the file at the same time
InitInitConc == InitOf(Procs)

SpecInitConc == InitInitConc /\ [][NextInit]_vars

\* stages whose statement writes to the file: the CREATE TABLE and CREATE
\* INDEX statements of _init_sqlite (storage.py:560-628, 634-637) and the
\* statements of the three passes
WritingStages == RetriedStages \cup {"createShifts", "createActs", "index"}

\* the statement p is about to run reports a lock once: under _retry_locked
\* the wrapper sleeps and attempts it again (storage.py:138-141); a bare
\* c.execute raises the OperationalError out of _init_sqlite
ILockReported(p) ==
  /\ pc[p] \in WritingStages
  /\ loc[p].retried < MaxLockReports
  /\ pc[p] \in {"migS_insert", "migA_scan", "migA_copy"} => loc[p].todo # <<>>
  /\ pc[p] \in {"migS_repoint", "dedupe_update"} => loc[p].todo2 # <<>>
  /\ IF pc[p] \in RetriedStages
     THEN /\ loc' = [loc EXCEPT ![p].retried = @ + 1]
          /\ pc' = pc
     ELSE /\ loc' = [loc EXCEPT ![p].err = "locked"]
          /\ pc' = [pc EXCEPT ![p] = "raised"]
  /\ UNCHANGED <<db, now, hist>>

NextInitLock == InitStatements("p1") \/ ILockReported("p1")

\* one process runs init_storage while another holds the file for a moment,
\* never long enough to exhaust a retry
SpecInitLock == InitInit1 /\ [][NextInitLock]_vars

----------------------------------------------------------------------------
(* Properties of init_storage, checked under SpecMig *)

\* the latest call was an init_storage that returned
InitReturned == hist.call.op = "init" /\ hist.call.ok

\* the latest call was an init_storage that returned, on the database an
\* earlier init_storage that returned had left
SecondPass == InitReturned /\ hist.runs >= 2 /\ hist.okPrev

\* the key the migration gives a stored row: derived for a legacy table,
\* the stored pair for a canonical one
DerivedKey(d, r) ==
  IF d.shiftCols = "legacy"
  THEN <<coerce_date(r.shift_date), DerivedUsername(r, d.userDefault)>>
  ELSE <<r.shift_date, r.username>>

RowKey(r) == <<r.shift_date, r.username>>

\* C4: for every database of earlier versions, once init_storage has run the
\* activities table holds as many rows as before and the shift_id of every
\* activity is the id of a row of the shifts table.
C4_ActivitiesKept ==
  hist.runs >= 1 /\ hist.call.op = "init" =>
    /\ Cardinality(db.acts) = Cardinality(hist.pre.acts)
    /\ \A a \in db.acts : a.shift_id \in ShiftIds(db)

\* an activity of a merged-away duplicate was there before the first pass
C4_Witness ==
  /\ InitReturned /\ hist.runs = 1
  /\ \E a \in hist.pre.acts : a.shift_id \notin ShiftIds(db)

\* C5: the shift migrator discards no row silently: every row the shifts
\* table held before init_storage, whatever its fields lack, has a row with
\* its derived (shift_date, username) afterwards.
C5_NoRowDiscarded ==
  InitReturned /\ hist.runs = 1 =>
    \A r \in hist.pre.shifts :
      \E q \in db.shifts : RowKey(q) = DerivedKey(hist.pre, r)

\* C6: an init_storage on the database an earlier init_storage left changes
\* nothing: shapes of the tables, the unique index, the sequences and the
\* shift, activity and hole rows are those it found.
C6_SecondRunNoOp == SecondPass => db = hist.pre

\* a second pass at a later clock value over shifts, activities and holes
C6_Witness ==
  /\ SecondPass
  /\ now > FirstNow
  /\ db.shifts # {} /\ db.acts # {} /\ db.holes # {}

\* C7: after init_storage every activity whose code is 'LOG' has a hole_id
\* that is neither NULL nor blank.
C7_LogHasHole ==
  hist.runs >= 1 =>
    \A a \in db.acts : a.code = LOG => Truthy(normalize_hole_id(a.hole_id))

\* C8: a second migration pass does not rebuild the activities table and
\* leaves the hole_id of every activity as it was.
C8_SecondPassKeepsHoles ==
  SecondPass =>
    /\ ~hist.rebuilt
    /\ \A a \in hist.pre.acts : \E b \in db.acts : b.id = a.id /\ b.hole_id = a.hole_id

\* a second pass over a table holding a LOG activity and its hole
C8_Witness ==
  /\ SecondPass
  /\ \E a \in hist.pre.acts : a.code = LOG /\ Truthy(a.hole_id)

\* C39: when init_storage has rebuilt the activities table, every activity
\* the table held before is in it under the id it had, with the code and the
\* creation time it had.
C39_RebuildKeepsIds ==
  hist.rebuilt =>
    \A a \in hist.pre.acts :
      \E b \in db.acts :
        /\ b.id = a.id
        /\ Truthy(a.code) => b.code = a.code
        /\ a.created_at # NoTs => b.created_at = a.created_at

\* rows the migration gives the same key, among those that carry an id
PreGroup(r) ==
  {q \in hist.pre.shifts : q.id # NoId /\ DerivedKey(hist.pre, q) = DerivedKey(hist.pre, r)}

\* when the row was last updated: updated_at, else created_at, else never
Recency(r) ==
  IF r.updated_at # NoTs THEN r.updated_at
  ELSE IF r.created_at # NoTs THEN r.created_at ELSE TsMin

\* C10: of the rows sharing a (shift_date, username) before init_storage,
\* exactly one survives, under its original id, it is the most recently
\* updated one, and every activity of the group points at it.
C10_LatestSurvives ==
  InitReturned /\ hist.runs = 1 =>
    \A r \in hist.pre.shifts :
      (r.id # NoId /\ Cardinality(PreGroup(r)) > 1) =>
        \E s \in db.shifts :
          /\ RowKey(s) = DerivedKey(hist.pre, r)
          /\ \A s2 \in db.shifts : RowKey(s2) = RowKey(s) => s2 = s
          /\ \E k \in PreGroup(r) :
               /\ k.id = s.id
               /\ \A q \in PreGroup(r) : Recency(q) <= Recency(k)
          /\ Cardinality({a \in db.acts : a.shift_id = s.id})
               = Cardinality({a \in hist.pre.acts : a.shift_id \in {q.id : q \in PreGroup(r)}})


\* C26: in the shift migrator, of the rows that share a derived
\* (shift_date, username) the keeper is the one with the latest timestamp
\* (updated_at, else created_at, else the minimum), ties broken by the
\* highest original id: a row lacking both timestamps is never kept in
\* place of a row of its group that has one.
C26_KeeperIsLatest ==
  (hist.call.op = "init" /\ hist.runs = 1 /\ hist.pre.shiftCols = "legacy"
     /\ db.shiftCols = "canon") =>
    \A r \in hist.pre.shifts :
      r.id # NoId =>
        \E k \in PreGroup(r) :
          /\ k.id \in ShiftIds(db)
          /\ \A q \in PreGroup(r) : q = k \/ Later(Recency(k), k.id, Recency(q), q.id)
----------------------------------------------------------------------------
(* Properties of upsert_shift, checked under Spec and SpecConc *)

RowsOf(k) == {r \in db.shifts : RowKey(r) = k}

EqualOnInputs(r, x) ==
  /\ r.client = x.client
  /\ r.mismatch = (IF x.mismatch THEN 1 ELSE 0)
  /\ x.shift_hours # <<>> => r.shift_hours = x.shift_hours[1]

\* C2: two processes upserting one pair concurrently: no interleaving of their
\* lookups and writes lets a duplicate-key error reach a caller, and once both
\* have returned the pair has exactly one row, holding the values of the
\* write applied last.
C2_LastWriterWins ==
  /\ ~hist.dupErr
  /\ pc = Idle =>
       \A k \in hist.upserted :
         /\ Cardinality(RowsOf(k)) = 1
         /\ k \in DOMAIN hist.lastWrite
         /\ \A r \in RowsOf(k) :
              /\ r.client = hist.lastWrite[k].client
              /\ r.mismatch = hist.lastWrite[k].mismatch
              /\ r.shift_hours = hist.lastWrite[k].shift_hours
              /\ r.updated_at = hist.lastWrite[k].updated_at

\* both calls have returned after one of them found the other's row in the
\* way of its INSERT: two ids were handed out for the one pair
C2_Witness ==
  /\ pc = Idle
  /\ Cardinality(hist.upserted) = 1
  /\ db.seqS >= 2
  /\ Cardinality(db.shifts) = 1

\* C3: once a shift row exists, later upserts update it in place: the row
\* keeps its id, is never deleted and inserted anew, and none of its
\* activities is removed. No call of SpecConc deletes a shift or an activity,
\* so every id handed out so far must still be in its table.
C3_UpdatedInPlace ==
  /\ ShiftIds(db) = 1..db.seqS
  /\ {a.id : a \in db.acts} = 1..db.seqA

\* the rows of one (shift_date, username) pair
PairRows(d, k) == {r \in d.shifts : RowKey(r) = k}

\* process p executes a writing statement of its upsert_shift
UpsertStatement(p) == pc[p] \in {"write", "dedupe", "replace"} /\ pc'[p] # pc[p]

\* C38: a statement of upsert_shift for a pair leaves every shift row of
\* another pair, every activity row and every hole row as it was, leaves the
\* pair with one row at most, and keeps the id and created_at of a row the
\* pair already has.
C38_UpsertFrame ==
  [][\A p \in Procs :
       UpsertStatement(p) =>
         LET k == KeyOf(loc[p].x)
         IN /\ db'.shifts \ PairRows(db', k) = db.shifts \ PairRows(db, k)
            /\ Cardinality(PairRows(db', k)) <= 1
            /\ PairRows(db, k) # {} =>
                 {<<r.id, r.created_at>> : r \in PairRows(db', k)}
                   = {<<r.id, r.created_at>> : r \in PairRows(db, k)}
            /\ db'.acts = db.acts
            /\ db'.holes = db.holes]_vars

\* C9: after upsert_shift(x) has returned, get_shift(x.shift_date, x.username)
\* finds a row equal to x on the input fields, whether the call created the
\* row or updated it.
C9_RoundTrip ==
  hist.call.op = "upsert" /\ hist.call.ok =>
    LET x == hist.call.x
        out == sqlite_get_shift(db, x.shift_date, x.username)
    IN /\ out # {}
       /\ \A r \in out : RowKey(r) = KeyOf(x) /\ EqualOnInputs(r, x)

\* an upsert_shift that returned after updating a row created earlier with
\* another client
C9_Witness ==
  /\ hist.call.op = "upsert" /\ hist.call.ok
  /\ \E r \in RowsOf(KeyOf(hist.call.x)) :
       /\ r.created_at < r.updated_at
       /\ r.client = <<"e">>
       /\ r.shift_hours = DefaultHours

----------------------------------------------------------------------------
(* Properties of the facade calls, checked under SpecApi *)

\* the step records a call of the operation with these arguments
IsCall(op, x) == hist'.call.op = op /\ hist'.call.x = x
\* blank as the claims use the word: absent, null, empty or spaces only
IsBlank(v) == v = ABSENT \/ v = NULLT \/ Strip(v) = <<>>

BlankRequired(x) == IsBlank(x.shift_date) \/ IsBlank(x.username) \/ IsBlank(x.client)

\* C11: upsert_shift raises a validation error and writes nothing to storage
\* whenever a required field is absent, null, empty or whitespace-only.
C11_BlankShiftRejected ==
  [][\A x \in ApiShiftInputs :
       (CallUpsertShift(x) /\ BlankRequired(x))
         => (hist'.call.err = "validation" /\ db' = db)]_vars
\* start and end of an activity record as the interface describes them: the
\* first alias that is given
GivenStart(a) == IF ~BlankTs(a.start_ts) THEN a.start_ts ELSE a.start_time
GivenEnd(a) ==
  IF ~BlankTs(a.end_ts) THEN a.end_ts
  ELSE IF ~BlankTs(a.end_time) THEN a.end_time ELSE GivenStart(a)

BlankActivity(a) ==
  BlankTs(GivenStart(a)) \/ BlankTs(GivenEnd(a)) \/ IsBlank(a.code) \/ IsBlank(a.label)

\* the shift, activity and hole rows of both backends
Rows(d) == <<d.shifts, d.acts, d.holes, d.sf.shifts, d.sf.acts, d.sf.holes>>

\* C12: add_activity and update_activity raise a validation error whenever
\* start, end, code or label is blank after the alias fallback, and then no
\* shift, activity or hole row is created or changed.
C12_BlankActivityRejected ==
  [][/\ \A k \in Keys, a \in ApiActs :
          (IsCall("add", [k |-> k, a |-> a]) /\ CallAddActivity(k, a)
             /\ BlankActivity(a))
            => (hist'.call.err = "validation" /\ Rows(db') = Rows(db))
     /\ \A k \in Keys, id \in ActIds, a \in ApiActs :
          (IsCall("update", [k |-> k, id |-> id, a |-> a])
             /\ CallUpdateActivity(k, id, a) /\ BlankActivity(a))
            => (hist'.call.err = "validation" /\ Rows(db') = Rows(db))]_vars

\* an update with a blank field was refused although the shift and the
\* activity exist
C12_Witness ==
  /\ hist.call.op = "update"
  /\ hist.call.err = "validation"
  /\ BlankActivity(hist.call.x.a)
  /\ \E sh \in sqlite_get_shift(db, hist.call.x.k[1], hist.call.x.k[2]) :
       \E r \in db.acts : r.id = hist.call.x.id /\ r.shift_id = sh.id
\* the active backend holds no shift row for the pair
NoShift(d, k) ==
  IF d.session THEN SfShiftsOf(d.sf, k[1], k[2]) = {}
  ELSE sqlite_get_shift(d, k[1], k[2]) = {}

\* the activity and hole rows of both backends
ActRowsAndHoles(d) == <<d.acts, d.holes, d.sf.acts, d.sf.holes>>

\* C13: on either backend, add_activity and update_activity for a pair that
\* has no shift fail with a validation error and insert or change no
\* activity and no hole.
C13_NoShiftRejected ==
  [][/\ \A k \in Keys, a \in ApiActs :
          (IsCall("add", [k |-> k, a |-> a]) /\ CallAddActivity(k, a)
             /\ NoShift(db, k))
            => (hist'.call.err = "validation"
                /\ ActRowsAndHoles(db') = ActRowsAndHoles(db))
     /\ \A k \in Keys, id \in ActIds, a \in ApiActs :
          (IsCall("update", [k |-> k, id |-> id, a |-> a])
             /\ CallUpdateActivity(k, id, a) /\ NoShift(db, k))
            => (hist'.call.err = "validation"
                /\ ActRowsAndHoles(db') = ActRowsAndHoles(db))]_vars
\* the activities of the shift of a pair, by the rows they refer to
ActsOf(d, k) ==
  IF d.session
  THEN {r \in d.sf.acts : r.shift_date = k[1] /\ r.username = k[2]}
  ELSE {r \in d.acts : \E sh \in d.shifts :
          sh.id = r.shift_id /\ sh.shift_date = k[1] /\ sh.username = k[2]}

\* the activity table of the active backend
ActTable(d) == IF d.session THEN d.sf.acts ELSE d.acts

\* everything stored but the activity table of the active backend
AllButActs(d) ==
  IF d.session THEN [d EXCEPT !.sf.acts = {}] ELSE [d EXCEPT !.acts = {}]

ForeignActs(d, k, id) == {r \in ActTable(d) : r.id = id /\ r \notin ActsOf(d, k)}

\* C15: update_activity and delete_activity called with a pair and the id of
\* an activity that belongs to a different shift leave that activity unchanged.
C15_OtherShiftUntouched ==
  [][/\ \A k \in Keys, id \in ActIds, a \in ApiActs :
          (IsCall("update", [k |-> k, id |-> id, a |-> a])
             /\ CallUpdateActivity(k, id, a))
            => ForeignActs(db, k, id) \subseteq ActTable(db')
     /\ \A k \in Keys, id \in ActIds :
          CallDeleteActivity(k, id) => ForeignActs(db, k, id) \subseteq ActTable(db')]_vars

\* an update_activity that returned, given the id of another shift's activity
C15_Witness ==
  /\ hist.call.op = "update"
  /\ hist.call.err = "none"
  /\ ~db.session
  /\ ForeignActs(db, hist.call.x.k, hist.call.x.id) # {}
\* two texts equal, an empty text and null counting as the same
SameText(u, v) == u = v \/ (~Truthy(u) /\ ~Truthy(v))

\* a returned record is the stored activity row
SameActivity(o, r) ==
  /\ o.id = r.id /\ o.start_ts = r.start_ts /\ o.end_ts = r.end_ts
  /\ o.code = r.code /\ o.label = r.label /\ o.hole_id = r.hole_id
  /\ SameText(o.notes, r.notes) /\ SameText(o.tool, r.tool)

\* a sequence of activities in ascending start time, then ascending id
Ordered(out) ==
  \A i, j \in 1..Len(out) :
    i < j => \/ out[i].start_ts < out[j].start_ts
             \/ (out[i].start_ts = out[j].start_ts /\ out[i].id < out[j].id)

\* C16: list_activities returns exactly the activities of the shift of the
\* pair, each once, ordered by ascending start time and then ascending id;
\* it returns the empty sequence when there is no such shift and changes no
\* stored state.
C16_ListOrdered ==
  [][\A k \in Keys :
       CallListActivities(k)
         => LET out == hist'.call.out
            IN /\ db' = db
               /\ Len(out) = Cardinality(ActsOf(db, k))
               /\ \A r \in ActsOf(db, k) : \E i \in 1..Len(out) : SameActivity(out[i], r)
               /\ Ordered(out)
               /\ NoShift(db, k) => out = <<>>]_vars

\* a record with start, end, code and label given, no alias a text of spaces
ValidActivity(a) ==
  /\ ~BlankActivity(a)
  /\ TsSpace \notin {a.start_ts, a.start_time, a.end_ts, a.end_time}

\* the hole table of the active backend
HoleTable(d) == IF d.session THEN d.sf.holes ELSE d.holes

\* the row carries what the record supplied
Carries(r, a) ==
  /\ r.start_ts = GivenStart(a) /\ r.end_ts = GivenEnd(a)
  /\ r.code = a.code /\ r.label = a.label
  /\ r.notes = a.notes /\ r.tool = a.tool

\* C17: add_activity with a valid record for an existing shift adds exactly
\* one activity row to that shift, carrying the supplied start, end, code,
\* label, notes and tool and a generated hole_id when the code is LOG and
\* none was supplied; every other activity and every shift row is unchanged,
\* and list_activities then returns the new row.
C17_AddExactlyOne ==
  [][\A k \in Keys, a \in ApiActs :
       (IsCall("add", [k |-> k, a |-> a]) /\ CallAddActivity(k, a)
             /\ ValidActivity(a) /\ ~NoShift(db, k))
         => /\ hist'.call.err = "none"
            /\ ActTable(db) \subseteq ActTable(db')
            /\ Cardinality(ActTable(db') \ ActTable(db)) = 1
            /\ db'.shifts = db.shifts /\ db'.sf.shifts = db.sf.shifts
            /\ \A r \in ActTable(db') \ ActTable(db) :
                 /\ r \in ActsOf(db', k)
                 /\ Carries(r, a)
                 /\ (a.code = LOG /\ IsBlank(a.hole_id))
                      => (~IsBlank(r.hole_id) /\ r.hole_id \notin HoleIds(HoleTable(db))
                          /\ r.hole_id \in HoleIds(HoleTable(db')))
                 /\ LET out == list_activities(db', k[1], k[2])
                    IN \E i \in 1..Len(out) : SameActivity(out[i], r)]_vars

\* the first call of the session added a LOG activity without a hole_id to
\* an existing shift
C17_Witness ==
  /\ hist.call.op = "add"
  /\ hist.call.err = "none"
  /\ hist.calls = 1
  /\ ~db.session
  /\ hist.call.x.a.code = LOG
  /\ IsBlank(hist.call.x.a.hole_id)
  /\ \E r \in ActsOf(db, hist.call.x.k) : r.id = db.seqA /\ r.created_at = now
\* the rows of a list of vehicles
RowsOfList(V) == {[barcode |-> Get(V[i].barcode), name |-> Get(V[i].name)] : i \in 1..Len(V)}

\* the rows of the vehicles table of the active backend; the remote table
\* stores "" for an absent attribute
VehicleRows(d) ==
  IF d.session THEN {d.sf.vehicles[i] : i \in 1..Len(d.sf.vehicles)} ELSE d.vehicles

\* a vehicle row with null attributes written as the remote table holds them
AsStored(d, v) ==
  IF d.session
  THEN [barcode |-> PyStr(IF v.barcode = NULLT THEN <<>> ELSE v.barcode),
        name |-> PyStr(IF v.name = NULLT THEN <<>> ELSE v.name)]
  ELSE v

\* C18: upsert_reference_data(V) has full-replace semantics: after it returns
\* the vehicles table contains exactly the rows of V, so a vehicle present
\* before whose barcode is not in V is no longer present.
C18_FullReplace ==
  [][\A V \in VehicleLists :
       CallUpsertReferenceData(V)
         => VehicleRows(db') = {AsStored(db, v) : v \in RowsOfList(V)}]_vars
\* the shift table of the active backend
ShiftTable(d) == IF d.session THEN d.sf.shifts ELSE d.shifts

\* C19: whenever upsert_shift returns normally, a shift row for the record's
\* pair exists in storage and the returned record is that stored row, with a
\* non-null id and its created_at and updated_at timestamps.
C19_ReturnsStoredRow ==
  (hist.call.op = "upsert" /\ hist.call.ok)
    => LET x == hist.call.x
           out == hist.call.out
       IN /\ \E r \in ShiftTable(db) :
               r.shift_date = Get(x.shift_date) /\ r.username = Get(x.username) /\ out = r
          /\ "id" \in DOMAIN out /\ out.id # NoId
          /\ out.created_at # NoTs /\ out.updated_at # NoTs
\* the activity rows of the backend in use
AllActs(d) == IF d.session THEN d.sf.acts ELSE d.acts

\* the hole_id the claim describes: the supplied one, trimmed, when it is not
\* blank; an identifier no hole had before when the code is LOG; else null
HoleAsClaimed(a, h, before) ==
  IF a.hole_id # NULLT /\ Strip(a.hole_id) # <<>> THEN h = Strip(a.hole_id)
  ELSE IF a.code = LOG THEN h # NULLT /\ h \notin before
  ELSE h = NULLT

\* C35: update_activity replaces every field of the matched activity: its
\* start, end, code, label, notes, tool and hole_id are the supplied ones
\* (hole_id trimmed, generated for a LOG activity without one, else null),
\* its id, shift and created_at stay, and no other activity changes.
C35_UpdateReplacesFields ==
  [][\A k \in Keys, id \in ActIds, a \in ApiActs :
       (IsCall("update", [k |-> k, id |-> id, a |-> a]) /\ CallUpdateActivity(k, id, a)
          /\ hist'.call.ok)
         => /\ Cardinality(AllActs(db')) = Cardinality(AllActs(db))
            /\ \A r \in AllActs(db) :
                 IF r \in ActsOf(db, k) /\ r.id = id
                 THEN \E q \in AllActs(db') :
                        /\ q = [r EXCEPT !.start_ts = StartVal(a), !.end_ts = EndVal(a),
                                         !.code = a.code, !.label = a.label,
                                         !.notes = a.notes, !.tool = a.tool,
                                         !.hole_id = q.hole_id, !.updated_at = q.updated_at]
                        /\ HoleAsClaimed(a, q.hole_id,
                                         HoleIds(db.holes) \cup HoleIds(db.sf.holes))
                 ELSE r \in AllActs(db')]_vars

\* an update_activity has rewritten an activity stored earlier
C35_Witness ==
  /\ hist.call.op = "update" /\ hist.call.ok
  /\ \E r \in AllActs(db) :
       /\ r.id = hist.call.x.id
       /\ r.created_at < r.updated_at
       /\ r.code = hist.call.x.a.code /\ r.tool = hist.call.x.a.tool

----------------------------------------------------------------------------
(* Properties of the retry wrapper, checked under SpecRetry *)

RetryDone == pc["p1"] \in {"returned", "raised", "exhausted"}

\* what holds of the wrapper at every moment
RetrySafe ==
  /\ loc["p1"].calls <= Retries
  /\ pc["p1"] = "returned"
       => /\ loc["p1"].result \in StatementResults
          /\ loc["p1"].firstOk = loc["p1"].calls
          /\ loc["p1"].calls = loc["p1"].i + 1
  /\ pc["p1"] = "exhausted" => loc["p1"].calls = Retries
  /\ (pc["p1"] = "retry" /\ loc["p1"].calls = Retries) => ENABLED RetryExhausted

\* C20: the retry wrapper terminates: it invokes the statement at most 30
\* times, returns the result of the first attempt that succeeds, and raises
\* a fatal storage error when every attempt reported a lock.
C20_RetryTerminates == []RetrySafe /\ <>RetryDone

\* every one of the 30 attempts reported a lock and the wrapper gave up
C20_Witness ==
  /\ pc["p1"] = "exhausted"
  /\ loc["p1"].calls = Retries
  /\ loc["p1"].slept = 465

----------------------------------------------------------------------------
(* Properties of opening a connection, checked under SpecConn *)

\* C21: when setting the write-ahead journal mode reports 'locked' on every
\* one of the bounded attempts, opening the connection fails with a fatal
\* error: no connection is returned whose journal mode was never configured.
C21_LockedOpenFails ==
  pc["p1"] = "returned" => (loc["p1"].wal /\ loc["p1"].lockedWal < WalAttempts)

----------------------------------------------------------------------------
(* Properties of init_storage run statement by statement, checked under   *)
(* SpecInitConc (two processes) and SpecInit1 (one process)               *)

\* every process that runs init_storage has returned or raised
AllDone == \A p \in Procs : pc[p] \in {"idle", "returned", "raised"}

\* no statement gave up on a lock held from outside the two processes
NoOutsideLock == \A p \in Procs : pc[p] # "idle" => ~loc[p].locked

\* C22: when two processes run init_storage concurrently on a database in a
\* legacy shape, then under every interleaving of their migration statements
\* the final activities table holds each pre-existing activity exactly once:
\* none is lost and none is duplicated.
C22_EachActivityOnce ==
  (AllDone /\ NoOutsideLock) =>
    /\ db.actCols # "none"
    /\ Cardinality(db.acts) = Cardinality(hist.pre.acts)
    /\ \A a \in hist.pre.acts : Cardinality({b \in db.acts : b.label = a.label}) = 1

\* a process is inside the shift migrator's rebuild
Swapping(p) == pc[p] \in TryStages \cup {"migS_fkoff", "migS_fkon"}

\* C24: during the shift-table migration the replacement of the old shifts
\* table by the new one is atomic for other processes: at no moment can a
\* concurrent reader or writer find the shifts table missing, or present
\* without the rows the migrator keeps.
C24_SwapAtomic ==
  NoOutsideLock =>
    \A p \in Procs :
      (Swapping(p) /\ loc[p].err = "none") =>
        /\ db.shiftCols # "none"
        /\ db.shiftCols = "canon" => db.shifts # {}

\* the stages at which a connection has PRAGMA foreign_keys=OFF in force:
\* after line 481 and until the finally clause has run
FkOffStages == TryStages \cup {"migS_fkon"}

\* C25: foreign-key enforcement on a connection is off only while the shift
\* migrator rebuilds and swaps the table: once the shift migrator has
\* returned or raised it is on again, and nothing else switches it off.
C25_FkOffOnlyInSwap ==
  \A p \in Procs :
    pc[p] \notin {"idle", "start"} =>
      /\ ~loc[p].fk => pc[p] \in FkOffStages
      /\ pc[p] \in {"migA", "dedupe", "index", "returned", "raised"} => loc[p].fk

\* a shift migrator was stopped by an exception inside its rebuild and the
\* call has raised, foreign keys on
C25_Witness ==
  \E p \in Procs :
    /\ pc[p] = "raised"
    /\ loc[p].done = <<"shifts">>
    /\ loc[p].err # "none"
    /\ loc[p].fk
    /\ db.shiftsNew.exists

\* the passes of init_storage in the order of their calls
PassOrder == <<"shifts", "activities", "dedupe", "index">>

IsPrefix(s, t) == Len(s) <= Len(t) /\ \A i \in 1..Len(s) : s[i] = t[i]

\* C27: within one init_storage call the passes run in the order shift
\* migration, activity migration, deduplication, unique-index creation: the
\* unique index is never created before the deduplication pass has run.
C27_DedupeBeforeIndex ==
  /\ \A p \in Procs : pc[p] # "idle" => IsPrefix(loc[p].done, PassOrder)
  /\ db.uq => \E p \in Procs : pc[p] # "idle" /\ loc[p].done = PassOrder

\* a call has created the unique index after its deduplication pass merged
\* the two rows of a pair
C27_Witness ==
  /\ db.uq
  /\ Cardinality(db.shifts) = 1
  /\ \E p \in Procs : pc[p] = "returned" /\ loc[p].done = PassOrder /\ ~loc[p].dedupeErr
  /\ hist.pre.shiftCols = "canon"

\* C28: an error raised while the deduplication pass runs, at any point of
\* grouping, reassignment or deletion, does not abort startup: the
\* init_storage call still returns normally.
C28_DedupeErrorNotFatal ==
  \A p \in Procs :
    (pc[p] \in {"returned", "raised"} /\ loc[p].dedupeErr) => pc[p] = "returned"

\* C29: the deduplication pass never loses an activity: the activities of a
\* losing shift row are moved to the keeper before that row is deleted, so
\* its DELETE removes no activity, also when the pass stops part-way
\* because of an error.
C29_DedupeKeepsActivities ==
  [][\A p \in Procs :
       (pc[p] \in DedupeStages /\ pc'[p] # pc[p]) =>
          Cardinality(db'.acts) = Cardinality(db.acts)]_vars

----------------------------------------------------------------------------
(* Reads next to another process's writes: p1 calls get_shift and
   list_activities, p2 the calls that write *)

\* get_shift (storage.py:766-786): the remote branch takes the newest row of
\* the pair, the embedded branch opens a connection and selects
get_shift(d, shift_date, username) ==
  IF d.session
  THEN LET rows == SfShiftsOf(d.sf, shift_date, username)
       IN IF rows = {} THEN {}
          ELSE {CHOOSE r \in rows : \A q \in rows : q.updated_at <= r.updated_at}
  ELSE sqlite_get_shift(d, shift_date, username)

\* a reader that answers from the rows it fetched before
ReadFromHeld(p) == loc[p].held

\* what a read of process p is answered from: a connection opened for this
\* call (storage.py:783, 959) or a query sent to the session (772-775,
\* 945-948), so the tables as they are now
ReadFrom(p) == db

\* the tables as the rows last handed to p showed them
Holding(p, d) == [loc EXCEPT ![p] = [held |-> d]]

ReadShift(p, k) ==
  /\ hist' = [hist EXCEPT !.call = Call("get_shift", "none", [k |-> k],
                                        get_shift(ReadFrom(p), k[1], k[2])),
                          !.okPrev = FALSE]
  /\ loc' = Holding(p, db)
  /\ UNCHANGED <<db, now, pc>>

ReadActivities(p, k) ==
  /\ hist' = [hist EXCEPT !.call = Call("list", "none", [k |-> k],
                                        list_activities(ReadFrom(p), k[1], k[2])),
                          !.okPrev = FALSE]
  /\ loc' = Holding(p, db)
  /\ UNCHANGED <<db, now, pc>>

\* both processes were started on the same file
InitRead ==
  /\ db \in ApiSeeds
  /\ now = FirstNow
  /\ hist = [Hist0(db) EXCEPT !.inited = TRUE, !.runs = 1,
                              !.call = Call("init", "none", <<>>, <<>>)]
  /\ pc = Idle
  /\ loc = [p \in Procs |-> [held |-> db]]

NextRead ==
  \/ Tick
  \/ \E x \in ApiShiftInputs : CallUpsertShift(x)
  \/ \E k \in Keys, a \in ApiActs : CallAddActivity(k, a)
  \/ \E k \in Keys, id \in ActIds, a \in ApiActs : CallUpdateActivity(k, id, a)
  \/ \E k \in Keys, id \in ActIds : CallDeleteActivity(k, id)
  \/ \E k \in Keys : ReadShift("p1", k)
  \/ \E k \in Keys : ReadActivities("p1", k)

SpecRead == InitRead /\ [][NextRead]_vars

(* Properties of the reads, checked under SpecRead *)

\* the latest call was a write that returned
Wrote(op) == hist.call.op = op /\ hist.call.ok

\* the id the latest add_activity gave its row
NewestActId == IF db.session THEN db.sf.seqA ELSE db.seqA

\* the shift rows of the backend in use
StoredShifts == IF db.session THEN db.sf.shifts ELSE db.shifts

ListedIds(rows) == {rows[i].id : i \in 1..Len(rows)}

\* C23: a get_shift or list_activities that starts after another process's
\* upsert_shift, add_activity, update_activity or delete_activity has returned
\* reflects that change: get_shift returns the row the upsert stored and
\* returned, the list holds the added activity, shows the updated fields, and
\* lacks the deleted one.
C23_ReadsReflectWrites ==
  [][\A k \in Keys :
       /\ (ReadShift("p1", k) /\ Wrote("upsert") /\ KeyOf(hist.call.x) = k
             /\ hist.call.out \in StoredShifts)
            => hist'.call.out = {hist.call.out}
       /\ (ReadActivities("p1", k) /\ Wrote("add") /\ hist.call.x.k = k)
            => NewestActId \in ListedIds(hist'.call.out)
       /\ (ReadActivities("p1", k) /\ Wrote("update") /\ hist.call.x.k = k)
            => \A i \in 1..Len(hist'.call.out) :
                 hist'.call.out[i].id = hist.call.x.id
                   => /\ hist'.call.out[i].code = hist.call.x.a.code
                      /\ hist'.call.out[i].start_ts = StartVal(hist.call.x.a)
       /\ (ReadActivities("p1", k) /\ Wrote("delete") /\ hist.call.x.k = k)
            => hist.call.x.id \notin ListedIds(hist'.call.out)]_vars

\* p1 has read a shift row that a call of this session wrote
C23_Witness ==
  /\ hist.call.op = "get_shift"
  /\ hist.calls > 0
  /\ \E r \in hist.call.out : r.updated_at >= FirstNow

----------------------------------------------------------------------------
(* A writing call of the embedded backend up to its first statement under
   _retry_locked, run by p1: the checks of the arguments, the connection, the
   lookup of the shift, then the wrapper of storage.py:134-143 *)

\* the calls p1 may make
WritingCalls ==
  {[op |-> "upsert", x |-> x] : x \in ApiShiftInputs}
  \cup {[op |-> "add", k |-> k, a |-> a] : k \in Keys, a \in ApiActs}
  \cup {[op |-> "update", k |-> k, a |-> a] : k \in Keys, a \in ApiActs}

\* the call entered: opened the connections opened, reads the SELECTs run,
\* kind the class of the exception that left the call, why the check that
\* raised a ValueError
CallLoc0(c) ==
  RetryLoc0 @@ [call |-> c, opened |-> 0, reads |-> 0, kind |-> "none", why |-> "none"]

LeftWith(kind, why) ==
  /\ loc' = [loc EXCEPT !["p1"].kind = kind, !["p1"].why = why]
  /\ pc' = [pc EXCEPT !["p1"] = "raised"]

\* the loop over the required fields (storage.py:789-793, 1020-1022,
\* 1134-1136) and d.get("shift_date").isoformat() (795), before any
\* connection is opened
CheckArguments ==
  /\ pc["p1"] = "check"
  /\ LET c == loc["p1"].call
     IN IF c.op = "upsert"
        THEN IF ~UpsertValid(c.x) THEN LeftWith("ValueError", "field")
             ELSE IF Get(c.x.shift_date) = NULLT THEN LeftWith("AttributeError", "none")
             ELSE pc' = [pc EXCEPT !["p1"] = "connect"] /\ loc' = loc
        ELSE IF ~ActivityValid(c.a) THEN LeftWith("ValueError", "field")
             ELSE pc' = [pc EXCEPT !["p1"] = "connect"] /\ loc' = loc
  /\ UNCHANGED <<db, now, hist>>

\* conn = _sqlite_conn() (storage.py:838, 1040, 1155)
CallConnects ==
  /\ pc["p1"] = "connect"
  /\ loc' = [loc EXCEPT !["p1"].opened = @ + 1]
  /\ pc' = [pc EXCEPT !["p1"] = "lookup"]
  /\ UNCHANGED <<db, now, hist>>

\* _sqlite_get_shift(conn, dt_str, username): upsert_shift goes on to its
\* UPDATE or INSERT (storage.py:840, 896, 903); add_activity and
\* update_activity raise ValueError("Shift does not exist yet.") when there
\* is no row (1041-1044, 1156-1159)
CallLooksUp ==
  /\ pc["p1"] = "lookup"
  /\ LET c == loc["p1"].call
     IN IF c.op # "upsert" /\ sqlite_get_shift(db, c.k[1], c.k[2]) = {}
        THEN /\ loc' = [loc EXCEPT !["p1"].reads = @ + 1, !["p1"].kind = "ValueError",
                                   !["p1"].why = "shift"]
             /\ pc' = [pc EXCEPT !["p1"] = "raised"]
        ELSE /\ loc' = [loc EXCEPT !["p1"].reads = @ + 1]
             /\ pc' = [pc EXCEPT !["p1"] = "retry"]
  /\ UNCHANGED <<db, now, hist>>

\* the classes of exception a statement raises that are not OperationalError
OtherErrors == {"IntegrityError", "ProgrammingError"}

\* fn() raises an exception the except clause does not name (storage.py:138):
\* it leaves the wrapper
StatementRaisesOther(kind) ==
  /\ pc["p1"] = "retry"
  /\ loc["p1"].i < Retries
  /\ loc' = [loc EXCEPT !["p1"].calls = @ + 1, !["p1"].kind = kind]
  /\ pc' = [pc EXCEPT !["p1"] = "raised"]
  /\ UNCHANGED <<db, now, hist>>

InitCall ==
  /\ db \in ApiSeeds \ {SeedSf}
  /\ now = FirstNow
  /\ hist = [Hist0(db) EXCEPT !.inited = TRUE, !.runs = 1,
                              !.call = Call("init", "none", <<>>, <<>>)]
  /\ pc = [Idle EXCEPT !["p1"] = "check"]
  /\ \E c \in WritingCalls : loc = [NoLoc EXCEPT !["p1"] = CallLoc0(c)]

CallStep ==
  \/ CheckArguments
  \/ CallConnects
  \/ CallLooksUp
  \/ \E v \in StatementResults : RetrySucceeds(v)
  \/ \E msg \in ErrorMessages : RetryLocked(msg)
  \/ \E msg \in ErrorMessages : RetryRaises(msg)
  \/ \E kind \in OtherErrors : StatementRaisesOther(kind)
  \/ RetryExhausted

SpecCall == InitCall /\ [][CallStep]_vars

(* Properties of the errors of a writing call, checked under SpecCall *)

\* the statement under the wrapper raised an error that names no lock
StatementError ==
  /\ pc["p1"] = "raised"
  /\ loc["p1"].kind \in OtherErrors \/ (loc["p1"].kind = "none" /\ loc["p1"].calls > 0)

\* the wrapper goes on only after a lock, and an error of any other kind
\* leaves it at the attempt that raised it: every attempt before reported a
\* lock, and the statement is invoked once when none did
OnlyLockedRetried ==
  /\ (pc["p1"] = "retry" /\ loc["p1"].calls > 0) => IsLockedError(loc["p1"].e)
  /\ pc["p1"] = "retry" => loc["p1"].calls = loc["p1"].i
  /\ StatementError => loc["p1"].calls = loc["p1"].i + 1
  /\ (StatementError /\ loc["p1"].i = 0) => loc["p1"].calls = 1

ValidationError == pc["p1"] = "raised" /\ loc["p1"].kind = "ValueError"

\* C30 as stated: only 'locked' errors are retried, an error of any other
\* kind raised by a statement under the wrapper propagates on its first
\* occurrence, and validation errors are raised without any storage attempt.
C30_ValidationBeforeStorage ==
  /\ OnlyLockedRetried
  /\ ValidationError
       => loc["p1"].opened = 0 /\ loc["p1"].reads = 0 /\ loc["p1"].calls = 0

\* C30, amended: only 'locked' errors are retried, an error of any other
\* kind raised by a statement under the wrapper propagates on its first
\* occurrence, and validation errors are raised before any statement is
\* attempted under the wrapper: a blank field before the connection is
\* opened, a missing shift after the connection and the one SELECT that
\* looks the shift up.
C30_OnlyLockedRetried ==
  /\ OnlyLockedRetried
  /\ ValidationError
       => /\ loc["p1"].calls = 0
          /\ loc["p1"].why = "field" => (loc["p1"].opened = 0 /\ loc["p1"].reads = 0)
          /\ loc["p1"].why = "shift" => (loc["p1"].opened = 1 /\ loc["p1"].reads = 1)

\* a constraint violation left the wrapper after earlier attempts were retried
C30_Witness ==
  /\ pc["p1"] = "raised"
  /\ loc["p1"].kind = "IntegrityError"
  /\ loc["p1"].i > 0
  /\ loc["p1"].calls = loc["p1"].i + 1

----------------------------------------------------------------------------
(* Properties of init_storage next to a short-lived lock, checked under
   SpecInitLock *)

\* C31: every statement of init_storage that writes to the file runs under
\* the retry policy: while lock reports stay below the retry bound, they are
\* retried and no lock error reaches the caller.
C31_WritesRetried ==
  ~(pc["p1"] = "raised" /\ loc["p1"].err = "locked")

----------------------------------------------------------------------------
(* init_storage and upsert_shift on a file whose shift rows hold any
   duration *)

\* durations a caller may pass and a cell of an earlier version may hold
HourValues == {8, 0, -1}

\* a shifts table of an earlier version with one row of the given duration
HourFiles ==
  {PreDb(shape, {[ShiftRow(1, <<<<"a">>, NULLT, <<"1">>>>, <<1, 1>>) EXCEPT !.shift_hours = h]},
         "canon", {}) : shape \in {"legacy"}, h \in HourValues}
  \cup {EmptyDb}

HourInputs ==
  {[FormShift(k, <<"c">>) EXCEPT !.shift_hours = hs] :
     k \in {<<<<"1">>, <<"a">>>>, <<<<"1">>, <<"b">>>>},
     hs \in {<<h>> : h \in HourValues} \cup {<<>>}}

InitHours ==
  /\ db \in HourFiles
  /\ now = FirstNow
  /\ hist = Hist0(db)
  /\ pc = Idle
  /\ loc = NoLoc

NextHours ==
  \/ InitStorage
  \/ Tick
  \/ \E x \in HourInputs : UpsertShift(x)

SpecHours == InitHours /\ [][NextHours]_vars

(* Properties of the stored durations, checked under SpecHours *)

\* C32: once init_storage has returned, after any further init_storage and
\* upsert_shift calls every stored shift row has shift_hours > 0.
C32_HoursPositive ==
  hist.inited => \A r \in db.shifts : r.shift_hours > 0

----------------------------------------------------------------------------
(* The hole registry: init_storage on a file of any earlier version, then
   the calls that write shifts and activities *)

\* a file with one shift and at most one activity of any shape
HoleFiles ==
  UNION {{PreDb("canon", S, ashape, A) :
            S \in PlainShiftTables(1),
            A \in UNION {ActTables(ashape, m, {1}) : m \in 0..1}} :
         ashape \in {"canon", "nofk", "legacy"}}

HoleActs ==
  {FormActivity(LOG, <<"x">>, NULLT),
   FormActivity(LOG, <<"x">>, <<"h", SP>>),
   FormActivity(OTH, <<"y">>, <<"g">>),
   FormActivity(OTH, <<"y">>, NULLT)}

InitHoles ==
  /\ db \in HoleFiles
  /\ now = FirstNow
  /\ hist = Hist0(db)
  /\ pc = Idle
  /\ loc = NoLoc

NextHoles ==
  \/ InitStorage
  \/ Tick
  \/ hist.inited /\ \E x \in {FormShift(K1, <<"e">>), FormShift(K3, <<"c">>)} : CallUpsertShift(x)
  \/ hist.inited /\ \E a \in HoleActs : CallAddActivity(K1, a)
  \/ hist.inited /\ \E id \in 1..3, a \in HoleActs : CallUpdateActivity(K1, id, a)
  \/ hist.inited /\ \E id \in 1..3 : CallDeleteActivity(K1, id)

SpecHoles == InitHoles /\ [][NextHoles]_vars

(* Properties of the hole registry, checked under SpecHoles *)

\* C33: once init_storage has returned, after any add_activity,
\* update_activity and delete_activity calls every non-null hole_id stored on
\* an activity is the key of a row of the hole registry.
C33_HolesRegistered ==
  hist.inited => \A a \in db.acts : a.hole_id # NULLT => a.hole_id \in HoleIds(db.holes)

\* an add_activity or update_activity has stored a hole_id the file did not
\* hold when init_storage began
C33_Witness ==
  /\ hist.inited
  /\ hist.call.op \in {"add", "update"} /\ hist.call.ok
  /\ \E a \in db.acts : a.hole_id # NULLT /\ a.hole_id \notin HoleIds(hist.pre.holes)

\* C34: the hole registry only grows: no init_storage, upsert_shift,
\* add_activity, update_activity or delete_activity removes a hole row, and a
\* hole that is referenced again keeps its created timestamp.
C34_RegistryGrows ==
  [][\A h \in db.holes :
       \E g \in db'.holes : g.hole_id = h.hole_id /\ g.created_at = h.created_at]_vars

\* an add_activity or update_activity has referenced a hole registered before
C34_Witness ==
  /\ hist.call.op \in {"add", "update"} /\ hist.call.ok
  /\ \E h \in db.holes : h.created_at < h.updated_at /\ h.updated_at = now

----------------------------------------------------------------------------
(* Facade calls of p1 while the execution context gains or loses its
   remote-warehouse session *)

\* the outcome of the probe p made when it started
SessionProbedAtStart(p) == loc[p].probed

\* _try_get_sf_session() is not None, evaluated by backend() inside the call
\* (storage.py:27-36, 769, 797, 943, 1026)
SessionAt(p) == db.session

\* the file and the warehouse as the call of p sees them: the branch it
\* takes follows its probe
Probed(p) == [db EXCEPT !.session = SessionAt(p)]

\* the tables a call leaves, in a context that is what it was
Left(d) == [d EXCEPT !.session = db.session]

BackendAdd(p, k, a) ==
  /\ hist.calls < MaxCalls
  /\ LET r == add_activity(Probed(p), k[1], k[2], a, now)
     IN /\ db' = Left(r.db)
        /\ hist' = [hist EXCEPT !.call = Call("add", r.err, [k |-> k, a |-> a], <<>>),
                                !.calls = @ + 1, !.okPrev = FALSE]
  /\ UNCHANGED <<now, pc, loc>>

BackendUpsert(p, x) ==
  /\ hist.calls < MaxCalls
  /\ LET r == upsert_shift_any(Probed(p), x, now)
     IN /\ db' = Left(r.db)
        /\ hist' = [hist EXCEPT !.call = Call("upsert", r.err, x, r.out),
                                !.calls = @ + 1, !.okPrev = FALSE]
  /\ UNCHANGED <<now, pc, loc>>

BackendList(p, k) ==
  /\ hist.calls < MaxCalls
  /\ hist' = [hist EXCEPT !.call = Call("list", "none", [k |-> k],
                                        list_activities(Probed(p), k[1], k[2])),
                          !.calls = @ + 1, !.okPrev = FALSE]
  /\ UNCHANGED <<db, now, pc, loc>>

BackendGet(p, k) ==
  /\ hist.calls < MaxCalls
  /\ hist' = [hist EXCEPT !.call = Call("get_shift", "none", [k |-> k],
                                        get_shift(Probed(p), k[1], k[2])),
                          !.calls = @ + 1, !.okPrev = FALSE]
  /\ UNCHANGED <<db, now, pc, loc>>

\* the execution context changes: a session becomes active, or the active
\* one goes away
SessionChanges ==
  /\ db' = [db EXCEPT !.session = ~@]
  /\ UNCHANGED <<now, hist, pc, loc>>

\* a file of an earlier session and a warehouse that holds one shift
BackendSeeds ==
  {[d EXCEPT !.sf = upsert_shift_sf(SeedSf, FormShift(K1, <<"e">>), 2).db.sf, !.session = s] :
     d \in {Seed1, Seed4}, s \in BOOLEAN}

InitBackend ==
  /\ db \in BackendSeeds
  /\ now = FirstNow
  /\ hist = [Hist0(db) EXCEPT !.inited = TRUE, !.runs = 1,
                              !.call = Call("init", "none", <<>>, <<>>)]
  /\ pc = Idle
  /\ loc = [p \in Procs |-> [probed |-> db.session]]

NextBackend ==
  \/ Tick
  \/ SessionChanges
  \/ \E k \in {K1, K2}, a \in ValidActs : BackendAdd("p1", k, a)
  \/ \E x \in {FormShift(K1, <<"c">>), FormShift(K2, <<"e">>)} : BackendUpsert("p1", x)
  \/ \E k \in {K1, K2} : BackendList("p1", k)
  \/ \E k \in {K1, K2} : BackendGet("p1", k)

SpecBackend == InitBackend /\ [][NextBackend]_vars

(* Properties of the choice of backend, checked under SpecBackend *)

\* the tables of the file
FileTables(d) == <<d.shifts, d.acts, d.holes, d.seqA, d.seqS>>

\* a step of a call that left the tables of only one side changed, or none
WroteOnly(remote) == IF remote THEN FileTables(db') = FileTables(db) ELSE db'.sf = db.sf

\* C36: every facade call uses the remote implementation if and only if a
\* session is present when it is made: a write changes the warehouse tables
\* alone with a session and the file alone without one, and a read answers
\* from the warehouse with a session and from the file without one, whatever
\* an earlier probe found.
C36_BackendPerCall ==
  [][/\ \A k \in {K1, K2}, a \in ValidActs :
          (BackendAdd("p1", k, a) /\ hist'.call.ok)
            => /\ WroteOnly(db.session)
               /\ IF db.session THEN db'.sf.acts # db.sf.acts ELSE db'.acts # db.acts
     /\ \A x \in {FormShift(K1, <<"c">>), FormShift(K2, <<"e">>)} :
          (BackendUpsert("p1", x) /\ hist'.call.ok)
            => /\ WroteOnly(db.session)
               /\ IF db.session THEN hist'.call.out \in db'.sf.shifts
                  ELSE hist'.call.out \in db'.shifts
     /\ \A k \in {K1, K2} :
          BackendGet("p1", k)
            => hist'.call.out \subseteq (IF db.session THEN db.sf.shifts ELSE db.shifts)
     /\ \A k \in {K1, K2} :
          BackendList("p1", k)
            => ListedIds(hist'.call.out) = {r.id : r \in ActsOf(db, k)}]_vars

\* calls of one process have written to the file and to the warehouse
C36_Witness ==
  /\ \E r \in db.acts : r.created_at >= FirstNow
  /\ \E q \in db.sf.acts : q.created_at >= FirstNow

----------------------------------------------------------------------------
(* The records get_shift and list_activities hand back: keys as texts,
   values with the type the driver gives them *)

\* a value and its Python type: "text", "number", "date" (datetime.date) or
\* "timestamp" (datetime.datetime)
Val(type, v) == [type |-> type, v |-> v]

\* .isoformat(): the same instant as text
IsoFormat(x) == Val("text", x.v)

\* column names of the warehouse tables (storage.py:656-664, 679-686)
SHIFT_DATE == <<"S", "H", "I", "F", "T", "_", "D", "A", "T", "E">>
USERNAME == <<"U", "S", "E", "R", "N", "A", "M", "E">>
CLIENT == <<"C", "L", "I", "E", "N", "T">>
CREATED_AT == <<"C", "R", "E", "A", "T", "E", "D", "_", "A", "T">>
UPDATED_AT == <<"U", "P", "D", "A", "T", "E", "D", "_", "A", "T">>
START_TS == <<"S", "T", "A", "R", "T", "_", "T", "S">>
END_TS == <<"E", "N", "D", "_", "T", "S">>
ID == <<"I", "D">>
CODE == <<"C", "O", "D", "E">>
HOLE_ID == <<"H", "O", "L", "E", "_", "I", "D">>
SHIFT_ID == <<"S", "H", "I", "F", "T", "_", "I", "D">>

\* Row.as_dict() of a PUMA_SHIFTS row: upper-case keys, DATE and
\* TIMESTAMP_NTZ columns as native values
SfShiftDict(r) ==
  (SHIFT_DATE :> Val("date", r.shift_date)) @@ (USERNAME :> Val("text", r.username))
  @@ (CLIENT :> Val("text", r.client))
  @@ (CREATED_AT :> Val("timestamp", r.created_at))
  @@ (UPDATED_AT :> Val("timestamp", r.updated_at))

\* Row.as_dict() of a PUMA_ACTIVITIES row
SfActDict(r) ==
  (ID :> Val("number", r.id)) @@ (SHIFT_DATE :> Val("date", r.shift_date))
  @@ (USERNAME :> Val("text", r.username))
  @@ (START_TS :> Val("timestamp", r.start_ts)) @@ (END_TS :> Val("timestamp", r.end_ts))
  @@ (CODE :> Val("text", r.code)) @@ (HOLE_ID :> Val("text", r.hole_id))
  @@ (CREATED_AT :> Val("timestamp", r.created_at))
  @@ (UPDATED_AT :> Val("timestamp", r.updated_at))

\* {k.lower(): v for k, v in r.items()}
LowerKeys(d) ==
  [k \in {Lower(u) : u \in DOMAIN d} |-> d[CHOOSE u \in DOMAIN d : Lower(u) = k]]

\* d[fld] = v
SetKey(d, fld, v) == [k \in DOMAIN d \cup {fld} |-> IF k = fld THEN v ELSE d[k]]

\* for fld in (...): if isinstance(d.get(fld), (datetime, date)):
\*   d[fld] = d[fld].isoformat(timespec="seconds")   (storage.py:953-955)
RECURSIVE IsoFields(_, _)
IsoFields(d, flds) ==
  IF flds = <<>> THEN d
  ELSE LET fld == Head(flds)
           d1 == IF fld \in DOMAIN d /\ d[fld].type \in {"date", "timestamp"}
                 THEN SetKey(d, fld, IsoFormat(d[fld]))
                 ELSE d
       IN IsoFields(d1, Tail(flds))

\* dict(row) of a row of the file: the columns are declared in lower case and
\* the dates and timestamps are stored as ISO text
FileShiftDict(r) ==
  (Lower(ID) :> Val("number", r.id)) @@ (Lower(SHIFT_DATE) :> Val("text", r.shift_date))
  @@ (Lower(USERNAME) :> Val("text", r.username)) @@ (Lower(CLIENT) :> Val("text", r.client))
  @@ (Lower(CREATED_AT) :> Val("text", r.created_at))
  @@ (Lower(UPDATED_AT) :> Val("text", r.updated_at))

FileActDict(r) ==
  (Lower(ID) :> Val("number", r.id)) @@ (Lower(SHIFT_ID) :> Val("number", r.shift_id))
  @@ (Lower(START_TS) :> Val("text", r.start_ts)) @@ (Lower(END_TS) :> Val("text", r.end_ts))
  @@ (Lower(CODE) :> Val("text", r.code)) @@ (Lower(HOLE_ID) :> Val("text", r.hole_id))
  @@ (Lower(CREATED_AT) :> Val("text", r.created_at))
  @@ (Lower(UPDATED_AT) :> Val("text", r.updated_at))

\* what get_shift returns (storage.py:766-786): on the remote branch the keys
\* lower-cased and r["shift_date"] = dt_str
get_shift_record(d, shift_date, username) ==
  IF d.session
  THEN {SetKey(LowerKeys(SfShiftDict(r)), Lower(SHIFT_DATE), Val("text", shift_date)) :
          r \in get_shift(d, shift_date, username)}
  ELSE {FileShiftDict(r) : r \in get_shift(d, shift_date, username)}

\* what list_activities returns (storage.py:940-1007)
list_activities_records(d, shift_date, username) ==
  LET rows == list_activities(d, shift_date, username)
  IN IF d.session
     THEN [i \in 1..Len(rows) |->
             IsoFields(LowerKeys(SfActDict(rows[i])),
                       <<Lower(START_TS), Lower(END_TS), Lower(CREATED_AT), Lower(UPDATED_AT)>>)]
     ELSE [i \in 1..Len(rows) |-> FileActDict(rows[i])]

ReturnShift(k) ==
  /\ hist' = [hist EXCEPT !.call = Call("get_shift", "none", [k |-> k],
                                        get_shift_record(db, k[1], k[2])),
                          !.okPrev = FALSE]
  /\ UNCHANGED <<db, now, pc, loc>>

ReturnActivities(k) ==
  /\ hist' = [hist EXCEPT !.call = Call("list", "none", [k |-> k],
                                        list_activities_records(db, k[1], k[2])),
                          !.okPrev = FALSE]
  /\ UNCHANGED <<db, now, pc, loc>>

InitShape ==
  /\ db \in {Seed0, Seed4, SeedSf}
  /\ now = FirstNow
  /\ hist = [Hist0(db) EXCEPT !.inited = TRUE, !.runs = 1,
                              !.call = Call("init", "none", <<>>, <<>>)]
  /\ pc = Idle
  /\ loc = NoLoc

NextShape ==
  \/ Tick
  \/ \E x \in {FormShift(K1, <<"c">>), FormShift(K2, <<"e">>)} : CallUpsertShift(x)
  \/ \E k \in {K1, K2}, a \in ValidActs : CallAddActivity(k, a)
  \/ \E k \in {K1, K2} : ReturnShift(k)
  \/ \E k \in {K1, K2} : ReturnActivities(k)

SpecShape == InitShape /\ [][NextShape]_vars

(* Properties of the returned records, checked under SpecShape *)

TemporalFields ==
  {Lower(SHIFT_DATE), Lower(START_TS), Lower(END_TS), Lower(CREATED_AT), Lower(UPDATED_AT)}

\* every key in lower case and every temporal field an ISO text
IsoShaped(d) ==
  /\ \A k \in DOMAIN d : k = Lower(k)
  /\ \A k \in DOMAIN d \cap TemporalFields : d[k].type = "text"

ReturnedRecords ==
  IF hist.call.op = "get_shift" THEN hist.call.out
  ELSE IF hist.call.op = "list" THEN {hist.call.out[i] : i \in 1..Len(hist.call.out)}
  ELSE {}

\* C37: the records get_shift and list_activities return have every key in
\* lower case and shift_date, start_ts, end_ts, created_at and updated_at as
\* ISO text on both backends, the remote one included.
C37_SameShape == \A d \in ReturnedRecords : IsoShaped(d)
====
